---- MODULE Spec2Model ----
(***************************************************************************)
(* A model of stslgo (src/stsl.go): the duration codec                     *)
(* (rpInt64ToString / rpStringToInt64), the JSON flattening engine         *)
(* (_flatten and its helpers) and the JSON ingestion methods of            *)
(* TimeSeriesClientData that turn flattened rows into point writes.        *)
(*                                                                         *)
(* Texts that the code walks character by character (retention policies)   *)
(* are sequences of one-character strings; keys and serialized JSON are    *)
(* strings built with \o.  Go values of type interface{} are records       *)
(* tagged with their dynamic kind.                                         *)
(***************************************************************************)
EXTENDS Integers, Sequences, FiniteSets

VARIABLES
    call,      \* the operation being run and its arguments
    ret,       \* what the operation returned (Pending before it ran)
    points,    \* the points handed to the store's write API, oldest first
    now,       \* the clock read by time.Now()
    ncalls,    \* the facade calls made so far
    db,        \* tscd.timeSeriesDB: the cached Name, RetentionPolicy, CreatedTime
    buckets,   \* the store: the bucket of each bucket name that exists
    client     \* tscd.iClient, the clients made so far, their error channels
               \* and the goroutines listening on them

vars == <<call, ret, points, now, ncalls, db, buckets, client>>

\* the state of the facade and its store, which the pure functions leave alone
facade == <<points, now, ncalls, db, buckets, client>>

Pending == [state |-> "pending"]

\* time.Time{}, the CreatedTime of a TimeSeriesDB that was never given one:
\* it lies before every instant of a run by more than the largest Duration
ZeroTime == 0 - 1

TIMESERIESDB_DEFAULT_DB_NAME == "default"

\* the timeSeriesDB of NewTimeSeriesClientData(dbName)
NewTimeSeriesClientData(dbName) ==
    [Name |-> IF dbName = "" THEN TIMESERIESDB_DEFAULT_DB_NAME ELSE dbName,
     RetentionPolicy |-> <<>>,
     CreatedTime |-> ZeroTime]

\* the name the facades of the model are constructed with
DbName == "db"

\* a store with no bucket
NoBuckets == [name \in {} |-> <<>>]

\* a bucket of the store: its retention rule, its creation time and the
\* points written to it
Bucket(everySeconds, shardGroupDurationSeconds, createdAt, data) ==
    [EverySeconds |-> everySeconds,
     ShardGroupDurationSeconds |-> shardGroupDurationSeconds,
     CreatedAt |-> createdAt,
     data |-> data]

\* the store with the bucket of that name set to b
WithBucket(bs, name, b) ==
    [n \in DOMAIN bs \cup {name} |-> IF n = name THEN b ELSE bs[n]]

\* the store without the bucket of that name
WithoutBucket(bs, name) == [n \in DOMAIN bs \ {name} |-> bs[n]]

\* a facade that has made no client: iClient is nil (0); an error channel
\* is the channel of the write API of one client and one bucket name; live
\* counts the goroutines ranging over it, pending the errors the write API
\* is waiting to hand over, logged the errors the goroutines have logged
NoClient ==
    [iClient |-> 0, nclients |-> 0, closed |-> {},
     live |-> [ch \in {} |-> 0], pending |-> [ch \in {} |-> 0], logged |-> 0]

\* iClient.Close() on client c: the error channels of its write APIs are
\* closed, which ends the loops ranging over them
Close(cl, c) ==
    [cl EXCEPT !.closed = @ \cup {c},
               !.live = [ch \in DOMAIN @ |-> IF ch[1] = c THEN 0 ELSE @[ch]]]

\* tscd.iClient = influxdb2.NewClient(host, token); defer
\* tscd.iClient.Close(): the client is closed when
\* CreateTimeSeriesConnection returns, whatever the health check said
Connect(cl) ==
    LET c == cl.nclients + 1
    IN  Close([cl EXCEPT !.iClient = c, !.nclients = c], c)

\* the client of a facade set up with NewTimeSeriesClientData and
\* CreateTimeSeriesConnection
Connected == Connect(NoClient)

(***************************************************************************)
(* DurationCodec: src/stsl.go, rpInt64ToString and rpStringToInt64         *)
(***************************************************************************)

\* Longest retention text enumerated as an input of rpStringToInt64.
MaxTextLen == 4
\* Largest number of seconds below which every n is an input of
\* rpInt64ToString (more than one day).
MaxSeconds == 100000

Digits == <<"0", "1", "2", "3", "4", "5", "6", "7", "8", "9">>

\* c < '0' || c > '9' is the negation of this
IsDigit(c) == \E i \in 1..10 : Digits[i] = c

DigitVal(c) == (CHOOSE i \in 1..10 : Digits[i] = c) - 1

\* strconv.FormatInt(p, 10) for p >= 0
RECURSIVE FormatInt(_)
FormatInt(p) ==
    IF p < 10 THEN <<Digits[p + 1]>>
    ELSE FormatInt(p \div 10) \o <<Digits[(p % 10) + 1]>>

\* a conversion that takes the empty string for 1
RECURSIVE ParseIntEmptyIsOne(_)
ParseIntEmptyIsOne(buf) ==
    IF buf = <<>> THEN 1
    ELSE IF Len(buf) = 1 THEN DigitVal(buf[1])
    ELSE 10 * ParseIntEmptyIsOne(SubSeq(buf, 1, Len(buf) - 1)) + DigitVal(buf[Len(buf)])

\* val, _ := strconv.ParseInt(buf.String(), 10, 64): the error is dropped,
\* and ParseInt returns 0 with its syntax error on the empty string.
RECURSIVE ParseInt(_)
ParseInt(buf) ==
    IF buf = <<>> THEN 0
    ELSE 10 * ParseInt(SubSeq(buf, 1, Len(buf) - 1)) + DigitVal(buf[Len(buf)])

\* the table of rpInt64ToString with 'd' and 'h' exchanged
wdhmsSwapped ==
    << [unit |-> "w", asSec |-> 7 * 24 * 60 * 60],
       [unit |-> "h", asSec |-> 24 * 60 * 60],
       [unit |-> "d", asSec |-> 60 * 60],
       [unit |-> "m", asSec |-> 60],
       [unit |-> "s", asSec |-> 1] >>

wdhms ==
    << [unit |-> "w", asSec |-> 7 * 24 * 60 * 60],
       [unit |-> "d", asSec |-> 24 * 60 * 60],
       [unit |-> "h", asSec |-> 60 * 60],
       [unit |-> "m", asSec |-> 60],
       [unit |-> "s", asSec |-> 1] >>

RECURSIVE rpInt64ToStringLoop(_, _, _)

\* the loop of rpInt64ToString without its test p != 0
rpInt64ToStringLoopKeepsZero(i, duration, buf) ==
    IF i > Len(wdhms) THEN buf
    ELSE LET tu == wdhms[i]
             p  == duration \div tu.asSec
         IN  rpInt64ToStringLoop(i + 1, duration % tu.asSec,
                 buf \o FormatInt(p) \o <<tu.unit>>)

\* for _, tu := range wdhms { ... }, from entry i on
rpInt64ToStringLoop(i, duration, buf) ==
    IF i > Len(wdhms) THEN buf
    ELSE LET tu == wdhms[i]
             p  == duration \div tu.asSec
         IN  rpInt64ToStringLoop(i + 1, duration % tu.asSec,
                 IF p # 0 THEN buf \o FormatInt(p) \o <<tu.unit>> ELSE buf)

rpInt64ToString(duration) ==
    IF duration = 0 THEN <<>>
    ELSE rpInt64ToStringLoop(1, duration, <<>>)

UnitLetters == {"w", "d", "h", "m", "s"}

\* the switch of rpStringToInt64 with a factor of the 'w' case missing
rpUnitSecondsShortWeek(c) ==
    CASE c = "w" -> 7 * 24 * 60
      [] c = "d" -> 24 * 60 * 60
      [] c = "h" -> 60 * 60
      [] c = "m" -> 60
      [] c = "s" -> 1

\* the multiplier the switch of rpStringToInt64 applies to val for unit c
rpUnitSeconds(c) ==
    CASE c = "w" -> 7 * 24 * 60 * 60
      [] c = "d" -> 24 * 60 * 60
      [] c = "h" -> 60 * 60
      [] c = "m" -> 60
      [] c = "s" -> 1

\* the default case of the switch keeping the sum accumulated so far
rpInvalidUnitKeepsSum(duration) == [duration |-> duration, err |-> "InvalidUnit"]

\* default: return 0, errors.New("unit of retention policy ...")
rpInvalidUnit(duration) == [duration |-> 0, err |-> "InvalidUnit"]

\* for _, c := range retentionPolicy { ... }, from character i on
RECURSIVE rpStringToInt64Loop(_, _, _, _)
rpStringToInt64Loop(retentionPolicy, i, duration, buf) ==
    IF i > Len(retentionPolicy) THEN [duration |-> duration, err |-> "nil"]
    ELSE LET c == retentionPolicy[i] IN
         IF ~IsDigit(c)
         THEN IF c \in UnitLetters
              THEN rpStringToInt64Loop(retentionPolicy, i + 1,
                       duration + ParseInt(buf) * rpUnitSeconds(c), <<>>)
              ELSE rpInvalidUnit(duration)
         ELSE rpStringToInt64Loop(retentionPolicy, i + 1, duration, buf \o <<c>>)

rpStringToInt64(retentionPolicy) ==
    IF retentionPolicy = <<>> THEN [duration |-> 0, err |-> "nil"]
    ELSE rpStringToInt64Loop(retentionPolicy, 1, 0, <<>>)

\* The characters retention texts are enumerated over: three digits, the
\* five unit letters and one character that is neither.
TextAlphabet == {"0", "1", "3"} \cup UnitLetters \cup {"x"}

RECURSIVE TextsOfLen(_)
TextsOfLen(n) ==
    IF n = 0 THEN {<<>>}
    ELSE {t \o <<c>> : t \in TextsOfLen(n - 1), c \in TextAlphabet}

\* Retention texts named by the specification and the tests.
ExampleTexts ==
    { <<"3", "w", "4", "d", "1", "2", "m", "3", "0", "s">>,
      <<"5", "s", "1", "0", "s">>,
      <<"1", "2", "0", "s">>,
      <<"3", "w", "4", "d", "x", "3", "0", "s">>,
      <<"3", "0">> }

Texts == UNION {TextsOfLen(n) : n \in 0..MaxTextLen} \cup ExampleTexts

\* The inputs of rpInt64ToString: every n up to MaxSeconds and, beyond it,
\* the durations mixing absent, smallest and largest counts of each unit.
Seconds ==
    (0..MaxSeconds)
    \cup { w * (7 * 24 * 60 * 60) + d * (24 * 60 * 60) + h * (60 * 60) + m * 60 + s :
             w \in 0..3, d \in {0, 1, 4, 6}, h \in {0, 1, 23},
             m \in {0, 1, 12, 59}, s \in {0, 1, 30, 59} }

CodecInit ==
    /\ call \in {[op |-> "ToString", seconds |-> n] : n \in Seconds}
                \cup {[op |-> "ToSeconds", text |-> t] : t \in Texts}
    /\ ret = Pending
    /\ points = <<>>
    /\ now = 0
    /\ ncalls = 0
    /\ db = NewTimeSeriesClientData(DbName)
    /\ buckets = NoBuckets
    /\ client = Connected

\* rpInt64ToString(seconds)
CallRpInt64ToString ==
    /\ call.op = "ToString"
    /\ ret = Pending
    /\ ret' = [text |-> rpInt64ToString(call.seconds)]
    /\ UNCHANGED <<call, facade>>

\* rpStringToInt64(text)
CallRpStringToInt64 ==
    /\ call.op = "ToSeconds"
    /\ ret = Pending
    /\ ret' = rpStringToInt64(call.text)
    /\ UNCHANGED <<call, facade>>

\* rpStringToInt64 applied to the text rpInt64ToString just returned
CallRoundTrip ==
    /\ call.op = "ToString"
    /\ ret # Pending
    /\ call' = [op |-> "RoundTrip", seconds |-> call.seconds, text |-> ret.text]
    /\ ret' = rpStringToInt64(ret.text)
    /\ UNCHANGED facade

CodecNext == CallRpInt64ToString \/ CallRpStringToInt64 \/ CallRoundTrip

CodecSpec == CodecInit /\ [][CodecNext]_vars

(***************************************************************************)
(* Go values of type interface{}: nil, the scalars json.Unmarshal yields   *)
(* (bool, float64, string), an int and a float64 NaN that only a caller of *)
(* Flatten can pass, []interface{} and map[string]interface{}.             *)
(***************************************************************************)

Null == [kind |-> "Null"]
BoolVal(b) == [kind |-> "Bool", val |-> b]
Float64Val(x) == [kind |-> "Float64", val |-> x]
IntVal(x) == [kind |-> "Int", val |-> x]
StringVal(x) == [kind |-> "String", val |-> x]
SliceVal(elems) == [kind |-> "Slice", elems |-> elems]
MapVal(members) == [kind |-> "Map", members |-> members]

\* case map[string]interface{}, []interface{}:
IsContainer(v) == v.kind \in {"Map", "Slice"}

\* make(map[string]interface{}) and m[k] = v
EmptyMap == [k \in {} |-> Null]
Put(m, k, v) == [x \in DOMAIN m \cup {k} |-> IF x = k THEN v ELSE m[x]]

\* The object keys of the model in the byte order encoding/json sorts map
\* keys in.
KeyOrder == <<"a", "k">>
Keys == {KeyOrder[i] : i \in 1..Len(KeyOrder)}

\* all the object keys of the model's values, in the byte order in which
\* json.Marshal writes the keys of a map
SortedKeys == <<"0", "a", "a.0", "a.k", "k">>

\* strconv.Itoa(i) for i >= 0
RECURSIVE Itoa(_)
Itoa(i) ==
    IF i < 10 THEN Digits[i + 1]
    ELSE Itoa(i \div 10) \o Digits[(i % 10) + 1]

\* json.Marshal fails on a float64 NaN (UnsupportedValueError), wherever it
\* sits in the value.
RECURSIVE MarshalOk(_)
MarshalOk(v) ==
    CASE v.kind = "Float64" -> v.val # "NaN"
      [] v.kind = "Slice" -> \A i \in 1..Len(v.elems) : MarshalOk(v.elems[i])
      [] v.kind = "Map" -> \A k \in DOMAIN v.members : MarshalOk(v.members[k])
      [] OTHER -> TRUE

RECURSIVE MarshalText(_)
RECURSIVE MarshalElems(_, _)
RECURSIVE MarshalMembers(_, _)

\* the elements of a slice from index i on, separated by commas
MarshalElems(elems, i) ==
    IF i > Len(elems) THEN ""
    ELSE (IF i > 1 THEN "," ELSE "") \o MarshalText(elems[i]) \o MarshalElems(elems, i + 1)

\* the members of a map in sorted key order, given the sorted keys left
MarshalMembers(members, keys) ==
    IF keys = <<>> THEN ""
    ELSE "\"" \o Head(keys) \o "\":" \o MarshalText(members[Head(keys)])
             \o (IF Len(keys) > 1 THEN "," ELSE "")
             \o MarshalMembers(members, Tail(keys))

\* string(json.Marshal(&v)): the compact text, map keys sorted
MarshalText(v) ==
    CASE v.kind = "Null" -> "null"
      [] v.kind = "String" -> "\"" \o v.val \o "\""
      [] v.kind = "Slice" -> "[" \o MarshalElems(v.elems, 1) \o "]"
      [] v.kind = "Map" ->
             "{" \o MarshalMembers(v.members,
                        SelectSeq(SortedKeys, LAMBDA k : k \in DOMAIN v.members)) \o "}"
      [] OTHER -> v.val

(***************************************************************************)
(* FlattenEngine: src/stsl.go, _flatten, _createkey, _matchkey.            *)
(* Go ranges over a map in an unspecified order, so _flatten is a set of   *)
(* outcomes [flatMap, err]: one per order of each range. err is "nil", the *)
(* error returned, or "panic" when the goroutine panics.                   *)
(***************************************************************************)

\* _createkey putting the dot in for the top level too
_createkeyAlwaysDot(top, prefix, subkey) == prefix \o "." \o subkey

_createkey(top, prefix, subkey) ==
    IF top THEN prefix \o subkey ELSE prefix \o "." \o subkey

\* _matchkey comparing against the first entry of the list only
_matchkeyFirstOnly(ignorelist, value) ==
    ignorelist # <<>> /\ ignorelist[1] = value

_matchkey(ignorelist, value) ==
    \E i \in 1..Len(ignorelist) : ignorelist[i] = value

Outcome(flatMap, err) == [flatMap |-> flatMap, err |-> err]

\* the outcomes of running rest(o.flatMap) after each outcome o of a step,
\* a step that failed ending the function
Then(outs, rest(_)) ==
    UNION {IF o.err = "nil" THEN rest(o.flatMap) ELSE {o} : o \in outs}

RECURSIVE _flatten(_, _, _, _, _)
RECURSIVE assign(_, _, _, _, _)
RECURSIVE RangeMap(_, _, _, _, _, _)
RECURSIVE RangeSlice(_, _, _, _, _, _)
RECURSIVE RangeElement(_, _, _, _, _, _, _)

\* the closure assign of _flatten, on the flatMap it captured
assign(flatMap, newKey, v, ignoretag, ignorelist) ==
    IF ignoretag
    THEN IF IsContainer(v)
         THEN IF MarshalOk(v)
              THEN {Outcome(Put(flatMap, newKey, StringVal(MarshalText(v))), "nil")}
              ELSE {Outcome(flatMap, "marshal")}
         ELSE {Outcome(Put(flatMap, newKey, v), "nil")}
    ELSE IF IsContainer(v)
         THEN _flatten(FALSE, flatMap, v, newKey, ignorelist)
         ELSE {Outcome(Put(flatMap, newKey, v), "nil")}

\* for k, v := range nested.(map[string]interface{}), the keys of rest
\* still to visit, in any order
RangeMap(top, flatMap, members, rest, prefix, ignorelist) ==
    IF rest = {} THEN {Outcome(flatMap, "nil")}
    ELSE UNION {
        LET v  == members[k]
            ok == _matchkey(ignorelist, k)
            step == IF ok /\ prefix = ""
                    THEN assign(flatMap, k, v, TRUE, ignorelist)
                    ELSE IF ok /\ prefix # ""
                    THEN assign(flatMap, _createkey(top, prefix, k), v, TRUE, ignorelist)
                    ELSE assign(flatMap, _createkey(top, prefix, k), v, FALSE, ignorelist)
            next(fm) == RangeMap(top, fm, members, rest \ {k}, prefix, ignorelist)
        IN  Then(step, next) : k \in rest }

\* the range over the tags of element i putting the element itself, not
\* its flattening, under createKey(prefix, i) for a tag that is not ignored
RangeElementStoresWhole(top, flatMap, i, v, rest, prefix, ignorelist) ==
    IF rest = {} THEN {Outcome(flatMap, "nil")}
    ELSE UNION {
        LET value == v.members[tag]
            step == IF _matchkey(ignorelist, tag)
                    THEN assign(flatMap, _createkey(top, prefix, Itoa(i) \o "." \o tag),
                                value, TRUE, ignorelist)
                    ELSE {Outcome(Put(flatMap, _createkey(top, prefix, Itoa(i)), v), "nil")}
            next(fm) == RangeElement(top, fm, i, v, rest \ {tag}, prefix, ignorelist)
        IN  Then(step, next) : tag \in rest }

\* for tag, value := range v.(map[string]interface{}) on element i (from 0)
\* of a slice, the tags of rest still to visit, in any order
RangeElement(top, flatMap, i, v, rest, prefix, ignorelist) ==
    IF rest = {} THEN {Outcome(flatMap, "nil")}
    ELSE UNION {
        LET value == v.members[tag]
            step == IF _matchkey(ignorelist, tag)
                    THEN assign(flatMap, _createkey(top, prefix, Itoa(i) \o "." \o tag),
                                value, TRUE, ignorelist)
                    ELSE assign(flatMap, _createkey(top, prefix, Itoa(i)),
                                v, FALSE, ignorelist)
            next(fm) == RangeElement(top, fm, i, v, rest \ {tag}, prefix, ignorelist)
        IN  Then(step, next) : tag \in rest }

\* for i, v := range nested.([]interface{}), from element j (from 1) on.
\* reflect.TypeOf(v) is nil for a nil element and Kind() on it panics.
RangeSlice(top, flatMap, elems, j, prefix, ignorelist) ==
    IF j > Len(elems) THEN {Outcome(flatMap, "nil")}
    ELSE LET v == elems[j]
             step == IF v.kind = "Null" THEN {Outcome(flatMap, "panic")}
                     ELSE IF v.kind = "Map"
                     THEN RangeElement(top, flatMap, j - 1, v, DOMAIN v.members,
                                       prefix, ignorelist)
                     ELSE assign(flatMap, _createkey(top, prefix, Itoa(j - 1)),
                                 v, FALSE, ignorelist)
             next(fm) == RangeSlice(top, fm, elems, j + 1, prefix, ignorelist)
         IN  Then(step, next)

_flatten(top, flatMap, nested, prefix, ignorelist) ==
    CASE nested.kind = "Null" -> {Outcome(flatMap, "panic")}
      [] nested.kind = "Map" ->
             RangeMap(top, flatMap, nested.members, DOMAIN nested.members,
                      prefix, ignorelist)
      [] nested.kind = "Slice" ->
             RangeSlice(top, flatMap, nested.elems, 1, prefix, ignorelist)
      [] OTHER -> {Outcome(flatMap, "invalid")}

\* TimeSeriesClientData.Flatten: flatmap is a named result, so the map
\* _flatten filled is what returns with the error too.
Flatten(nested, prefix, IgnoreKeyList) ==
    _flatten(TRUE, EmptyMap, nested, prefix, IgnoreKeyList)


(***************************************************************************)
(* The arguments Flatten is run on: every map[string]interface{} of at     *)
(* most MaxNodes values (itself included) over Keys and Leaves, with each  *)
(* of IgnoreLists.                                                         *)
(***************************************************************************)

\* Most values (containers and leaves, the root included) of one argument.
MaxNodes == 5

\* nil, a float64, a string, and a float64 NaN (which json.Marshal rejects)
Leaves == {Null, Float64Val("1"), StringVal("s"), Float64Val("NaN")}

IgnoreLists == {<<>>, <<"k">>, <<"k", "a">>}

RECURSIVE ValuesOver(_, _, _)
RECURSIVE ElemsOver(_, _, _)
RECURSIVE MembersOver(_, _, _, _)

\* the values of exactly n nodes with leaves in L and object keys in K
ValuesOver(n, L, K) ==
    (IF n = 1 THEN L ELSE {})
    \cup {SliceVal(e) : e \in ElemsOver(n - 1, L, K)}
    \cup {MapVal(m) : m \in MembersOver(n - 1, 1, L, K)}

\* the element sequences of n nodes in all
ElemsOver(n, L, K) ==
    IF n = 0 THEN {<<>>}
    ELSE UNION {{<<v>> \o e : v \in ValuesOver(k, L, K), e \in ElemsOver(n - k, L, K)} :
                   k \in 1..n}

\* the member maps of n nodes in all over the keys K[i], K[i+1], ...
MembersOver(n, i, L, K) ==
    IF n = 0 THEN {EmptyMap}
    ELSE IF i > Len(K) THEN {}
    ELSE MembersOver(n, i + 1, L, K)
         \cup UNION {{Put(m, K[i], v) :
                         v \in ValuesOver(k, L, K), m \in MembersOver(n - k, i + 1, L, K)} :
                        k \in 1..n}

\* the same over the keys of KeyOrder
ValuesOf(n, L) == ValuesOver(n, L, KeyOrder)

ElemsOf(n, L) == ElemsOver(n, L, KeyOrder)

MembersOf(n, i, L) == MembersOver(n, i, L, KeyOrder)

MapsUpTo(n, L) == UNION {{MapVal(m) : m \in MembersOf(k - 1, 1, L)} : k \in 1..n}

FlattenInit ==
    /\ call \in {[op |-> "Flatten", nested |-> v, prefix |-> "", ignore |-> ig] :
                    v \in MapsUpTo(MaxNodes, Leaves), ig \in IgnoreLists}
    /\ ret = Pending
    /\ points = <<>>
    /\ now = 0
    /\ ncalls = 0
    /\ db = NewTimeSeriesClientData(DbName)
    /\ buckets = NoBuckets
    /\ client = Connected

\* tscd.Flatten(nested, prefix, IgnoreKeyList): one of its outcomes
CallFlatten ==
    /\ call.op = "Flatten"
    /\ ret = Pending
    /\ \E o \in Flatten(call.nested, call.prefix, call.ignore) : ret' = o
    /\ UNCHANGED <<call, facade>>

FlattenNext == CallFlatten

FlattenSpec == FlattenInit /\ [][FlattenNext]_vars

(***************************************************************************)
(* Flatten on objects whose keys may hold a '.' or be an array index: every*)
(* map[string]interface{} of at most MaxKeyNodes values over SortedKeys    *)
(* and KeyLeaves, under each of KeyPrefixes and IgnoreLists.               *)
(***************************************************************************)

\* Most values (the root included) of one such argument.
MaxKeyNodes == 4

KeyLeaves == {Float64Val("1"), StringVal("s")}

KeyPrefixes == {"", "p"}

FlattenKeysInit ==
    /\ call \in {[op |-> "Flatten", nested |-> MapVal(m), prefix |-> p, ignore |-> ig] :
                    m \in UNION {MembersOver(n - 1, 1, KeyLeaves, SortedKeys) :
                                     n \in 1..MaxKeyNodes},
                    p \in KeyPrefixes, ig \in IgnoreLists}
    /\ ret = Pending
    /\ points = <<>>
    /\ now = 0
    /\ ncalls = 0
    /\ db = NewTimeSeriesClientData(DbName)
    /\ buckets = NoBuckets
    /\ client = Connected

FlattenKeysSpec == FlattenKeysInit /\ [][FlattenNext]_vars


(***************************************************************************)
(* JSON ingestion: src/stsl.go, WritePoint, InsertUnmarshalledJsonRows,    *)
(* UnmarshallJsonRows, InsertJsonArray, InsertJson.  A jsonBuffer is the   *)
(* JSON document its bytes hold (numbers as the float64 encoding/json      *)
(* decodes them to), or Malformed when the bytes are no JSON text.         *)
(***************************************************************************)

\* Most values of the document given to InsertJson.
MaxDocNodes == 3
\* Most rows of the array given to InsertJsonArray, and most values of a row.
MaxRows == 2
MaxRowNodes == 2
\* Most facade calls of one run.
MaxCalls == 2

JsonLeaves == {Null, BoolVal("true"), Float64Val("1"), StringVal("s")}

Malformed == [kind |-> "Malformed"]

Measurements == {"m"}

\* the ignore lists the ingestion calls are given
IngestIgnoreLists == {<<>>, <<"k">>}

RECURSIVE RowSeqs(_, _)
RowSeqs(n, R) ==
    IF n = 0 THEN {<<>>} ELSE {<<r>> \o rs : r \in R, rs \in RowSeqs(n - 1, R)}

\* buffers for InsertJson: the objects, and some texts that are no object
ObjectBuffers ==
    MapsUpTo(MaxDocNodes, JsonLeaves)
    \cup {Malformed, Null, Float64Val("1"), SliceVal(<<MapVal(EmptyMap)>>)}

\* arrays one row of which holds an array with a null element
NilElementRow == MapVal(Put(EmptyMap, "k", SliceVal(<<Null>>)))

NilElementRowSeqs ==
    {<<NilElementRow>>,
     <<MapVal(Put(EmptyMap, "a", Float64Val("1"))), NilElementRow>>,
     <<NilElementRow, MapVal(Put(EmptyMap, "a", Float64Val("1")))>>}

\* buffers for InsertJsonArray: the arrays of objects, and some texts that
\* are no array of objects
ArrayBuffers ==
    {SliceVal(rs) : rs \in UNION {RowSeqs(n, MapsUpTo(MaxRowNodes, JsonLeaves)) : n \in 0..MaxRows}}
    \cup {Malformed, Null, MapVal(EmptyMap), SliceVal(<<Float64Val("1")>>),
          SliceVal(<<Null>>)}
    \cup {SliceVal(rs) : rs \in NilElementRowSeqs}

\* rows handed to InsertUnmarshalledJsonRows by a caller holding Go values:
\* one that flattens, and two whose ignored member cannot be marshalled
GoRows ==
    {MapVal(Put(EmptyMap, "a", Float64Val("1"))),
     MapVal(Put(EmptyMap, "k", SliceVal(<<Float64Val("NaN")>>))),
     MapVal(Put(Put(EmptyMap, "a", StringVal("s")), "k", SliceVal(<<Float64Val("NaN")>>)))}

GoRowSeqs == UNION {RowSeqs(n, GoRows) : n \in 0..MaxRows}

\* json.Unmarshal(jsonBuffer, &data) with data a map[string]interface{}:
\* an object fills it, null leaves it empty, anything else is an error
UnmarshalObject(jsonBuffer) ==
    CASE jsonBuffer.kind = "Map" -> [err |-> "nil", data |-> jsonBuffer]
      [] jsonBuffer.kind = "Null" -> [err |-> "nil", data |-> MapVal(EmptyMap)]
      [] OTHER -> [err |-> "decode", data |-> MapVal(EmptyMap)]

\* UnmarshallJsonRows: json.Unmarshal(jsonBuffer, &jsonrow) with jsonrow a
\* []JsonRow: an array of objects (a null element gives a nil map, which
\* ranges like an empty one) fills it, null leaves it empty
UnmarshallJsonRows(jsonBuffer) ==
    CASE jsonBuffer.kind = "Slice"
             /\ \A i \in 1..Len(jsonBuffer.elems) :
                    jsonBuffer.elems[i].kind \in {"Map", "Null"} ->
             [err |-> "nil",
              jsonrow |-> [i \in 1..Len(jsonBuffer.elems) |->
                              IF jsonBuffer.elems[i].kind = "Map"
                              THEN jsonBuffer.elems[i] ELSE MapVal(EmptyMap)]]
      [] jsonBuffer.kind = "Null" -> [err |-> "nil", jsonrow |-> <<>>]
      [] OTHER -> [err |-> "decode", jsonrow |-> <<>>]

\* value != nil and Kind() one of Float64, String, Bool, Int
KeepsField(value) ==
    value # Null /\ value.kind \in {"Float64", "String", "Bool", "Int"}

\* for key, value := range flatjson { ... fields[key] = value ... }
AddFields(fields, flatjson) ==
    LET kept == {key \in DOMAIN flatjson : KeepsField(flatjson[key])}
    IN  [key \in DOMAIN fields \cup kept |->
            IF key \in kept THEN flatjson[key] ELSE fields[key]]

\* influxdb2.NewPoint(measurement, tags, fields, time.Now()), which copies
\* the tags and fields it is given
NewPoint(measurement, tags, fields, time) ==
    [measurement |-> measurement, tags |-> tags, fields |-> fields, time |-> time]

\* the count of the channel, 0 for a channel not made yet
CountOf(counts, ch) == IF ch \in DOMAIN counts THEN counts[ch] ELSE 0

\* the counts with n more for the channel
Plus(counts, ch, n) ==
    [c \in DOMAIN counts \cup {ch} |-> IF c = ch THEN CountOf(counts, ch) + n ELSE counts[c]]

\* errorsCh := writeAPI.Errors(); go func() { for err := range errorsCh
\* { log } }(): one more goroutine ranges over the channel
StartListener(cl, ch) ==
    [cl EXCEPT !.live = Plus(@, ch, 1), !.pending = Plus(@, ch, 0)]

\* WritePoint on the state [points, now, db, buckets, client] of the facade
\* and its store: a goroutine is started on the error channel of the write
\* API of the client and the bucket named timeSeriesDB.Name, the point is
\* handed to that write API and flushed, which stores it when the bucket
\* exists and puts an error on the channel when it does not; the method
\* returns nil
WritePoint(st, measurement, tags, fields) ==
    LET point == NewPoint(measurement, tags, fields, st.now)
        bucketName == st.db.Name
        errorsCh == <<st.client.iClient, bucketName>>
        listening == StartListener(st.client, errorsCh)
    IN  [points |-> Append(st.points, point),
         now |-> st.now + 1,
         db |-> st.db,
         buckets |->
             IF bucketName \in DOMAIN st.buckets
             THEN WithBucket(st.buckets, bucketName,
                      [st.buckets[bucketName] EXCEPT !.data = Append(@, point)])
             ELSE st.buckets,
         client |->
             IF bucketName \in DOMAIN st.buckets THEN listening
             ELSE [listening EXCEPT !.pending = Plus(@, errorsCh, 1)]]

\* the state of the facade and its store before the step
World ==
    [points |-> points, now |-> now, db |-> db, buckets |-> buckets, client |-> client]

\* the step leaves the facade and its store in state st
Becomes(st) ==
    /\ points' = st.points
    /\ now' = st.now
    /\ db' = st.db
    /\ buckets' = st.buckets
    /\ client' = st.client

\* the loop of InsertUnmarshalledJsonRows from row j on: tags and fields are
\* made once, before the loop; a Flatten error is logged and the row goes
\* on with the map Flatten handed back; a panic ends the process
RECURSIVE InsertRowsFrom(_, _, _, _, _, _)
InsertRowsFrom(j, rows, fields, st, measurement, ignoreKeyList) ==
    IF j > Len(rows) THEN {[st |-> st, err |-> "nil"]}
    ELSE UNION {
        IF o.err = "panic" THEN {[st |-> st, err |-> "panic"]}
        ELSE LET f == AddFields(fields, o.flatMap)
             IN  InsertRowsFrom(j + 1, rows, f,
                                WritePoint(st, measurement, EmptyMap, f),
                                measurement, ignoreKeyList) :
            o \in Flatten(rows[j], "", ignoreKeyList) }

\* InsertUnmarshalledJsonRows: its named result err is never assigned (the
\* loop's err is a new variable), so it returns nil unless it panics
InsertUnmarshalledJsonRows(st, measurement, rows, ignoreKeyList) ==
    InsertRowsFrom(1, rows, EmptyMap, st, measurement, ignoreKeyList)

Alive == IF ret = Pending THEN TRUE ELSE ret.err # "panic"

Init ==
    /\ call = [op |-> "none"]
    /\ ret = Pending
    /\ points = <<>>
    /\ now = 0
    /\ ncalls = 0
    /\ db = NewTimeSeriesClientData(DbName)
    /\ buckets = WithBucket(NoBuckets, DbName, Bucket(0, 0, 0, <<>>))
    /\ client = Connected

\* tscd.InsertJson(measurement, ignoreList, jsonBuffer)
InsertJson(measurement, ignoreList, jsonBuffer) ==
    /\ Alive
    /\ ncalls < MaxCalls
    /\ ncalls' = ncalls + 1
    /\ call' = [op |-> "InsertJson", measurement |-> measurement,
                ignoreList |-> ignoreList, jsonBuffer |-> jsonBuffer]
    /\ LET d == UnmarshalObject(jsonBuffer) IN
       IF d.err # "nil"
       THEN ret' = [err |-> d.err] /\ Becomes(World)
       ELSE \E o \in Flatten(d.data, "", ignoreList) :
               IF o.err # "nil"
               THEN ret' = [err |-> o.err] /\ Becomes(World)
               ELSE /\ ret' = [err |-> "nil"]
                    /\ Becomes(WritePoint(World, measurement, EmptyMap,
                                          AddFields(EmptyMap, o.flatMap)))

\* tscd.InsertJsonArray(measurement, ignoreList, jsonBuffer)
InsertJsonArray(measurement, ignoreList, jsonBuffer) ==
    /\ Alive
    /\ ncalls < MaxCalls
    /\ ncalls' = ncalls + 1
    /\ call' = [op |-> "InsertJsonArray", measurement |-> measurement,
                ignoreList |-> ignoreList, jsonBuffer |-> jsonBuffer]
    /\ LET d == UnmarshallJsonRows(jsonBuffer) IN
       IF d.err = "nil" /\ Len(d.jsonrow) > 0
       THEN \E r \in InsertUnmarshalledJsonRows(World, measurement, d.jsonrow, ignoreList) :
               /\ ret' = [err |-> r.err]
               /\ Becomes(r.st)
       ELSE ret' = [err |-> d.err] /\ Becomes(World)

\* tscd.InsertUnmarshalledJsonRows(measurement, rows, ignoreKeyList), called
\* by a user of the package with rows of its own
CallInsertUnmarshalledJsonRows(measurement, rows, ignoreKeyList) ==
    /\ Alive
    /\ ncalls < MaxCalls
    /\ ncalls' = ncalls + 1
    /\ call' = [op |-> "InsertUnmarshalledJsonRows", measurement |-> measurement,
                ignoreList |-> ignoreKeyList, rows |-> rows]
    /\ \E r \in InsertUnmarshalledJsonRows(World, measurement, rows, ignoreKeyList) :
          /\ ret' = [err |-> r.err]
          /\ Becomes(r.st)

Next ==
    \/ \E m \in Measurements, ig \in IngestIgnoreLists, b \in ObjectBuffers :
          InsertJson(m, ig, b)
    \/ \E m \in Measurements, ig \in IngestIgnoreLists, b \in ArrayBuffers :
          InsertJsonArray(m, ig, b)
    \/ \E m \in Measurements, ig \in IngestIgnoreLists, rs \in GoRowSeqs :
          CallInsertUnmarshalledJsonRows(m, rs, ig)

Spec == Init /\ [][Next]_vars


(***************************************************************************)
(* Database management and key/value access: src/stsl.go,                  *)
(* CreateTimeSeriesDB, CreateTimeSeriesDBWithRetentionPolicy,              *)
(* DeleteTimeSeriesDB, UpdateTimeSeriesDBRetentionPolicy, DropMeasurement,  *)
(* Set, Get.  The                                                          *)
(* store is the set of buckets; whether it finds the organization and      *)
(* whether it accepts a creation, update or deletion are inputs of a call. *)
(***************************************************************************)

\* Most facade calls of one run of the database specification.
MaxDbCalls == 4

\* the retention of a bucket that exists before the facade is constructed
PriorRetention == 90000

\* the texts given as retention policy: infinite, around the two shard
\* group thresholds, and one with an unknown unit
RetentionTexts ==
    {<<>>, <<"1", "h">>, <<"2", "d">>, <<"3", "d">>, <<"4", "8", "h">>,
     <<"6", "0", "d">>, <<"6", "1", "d">>, <<"1", "x">>}

CreateTexts == {<<"1", "h">>, <<"2", "d">>, <<"1", "x">>}

\* the measurements of the database specification's calls
DbMeasurements == {"m", "n"}

SetKeys == {"a"}

SetValues == {Float64Val("1"), Float64Val("2")}

\* the policy cached for a bucket found to exist, without the conversion
AdoptedPolicyOfText(bucket, retentionPolicy) == retentionPolicy

\* rpInt64ToString(bucket.RetentionRules[0].EverySeconds), the policy cached
\* for a bucket found to exist, whatever retentionPolicy was asked for
AdoptedPolicy(bucket, retentionPolicy) == rpInt64ToString(bucket.EverySeconds)

\* a bucket created with no expiry, whatever duration was asked for
CreatedBucketInfinite(duration, createdAt) == Bucket(0, 0, createdAt, <<>>)

\* the bucket CreateBucketWithName makes: RetentionRule{EverySeconds:
\* duration}, no point yet (0 stands for the shard group duration the
\* facade did not set)
CreatedBucket(duration, createdAt) == Bucket(duration, 0, createdAt, <<>>)

\* the body of CreateTimeSeriesDBWithRetentionPolicy on the state st; the
\* store finds the organization or not (orgFound) and accepts the creation
\* or not (storeAccepts).  A rejected creation returns a nil bucket, which
\* the method dereferences after it has set the cached RetentionPolicy.
CreateBucketOutcome(st, retentionPolicy, orgFound, storeAccepts) ==
    LET bucketName == st.db.Name
        duration == rpStringToInt64(retentionPolicy)
    IN  IF ~orgFound THEN [st |-> st, err |-> "org"]
        ELSE IF bucketName \in DOMAIN st.buckets
        THEN [st |-> [st EXCEPT
                         !.db.RetentionPolicy =
                             AdoptedPolicy(st.buckets[bucketName], retentionPolicy),
                         !.db.CreatedTime = st.buckets[bucketName].CreatedAt],
              err |-> "nil"]
        ELSE IF duration.err # "nil" THEN [st |-> st, err |-> duration.err]
        ELSE IF ~storeAccepts
        THEN [st |-> [st EXCEPT !.db.RetentionPolicy = retentionPolicy],
              err |-> "panic"]
        ELSE [st |-> [st EXCEPT
                         !.buckets = WithBucket(st.buckets, bucketName,
                                         CreatedBucket(duration.duration, st.now)),
                         !.now = st.now + 1,
                         !.db.RetentionPolicy = retentionPolicy,
                         !.db.CreatedTime = st.now],
              err |-> "nil"]

\* the shard group duration UpdateTimeSeriesDBRetentionPolicy derives
ShardGroupDuration(duration) ==
    IF duration > rpStringToInt64(<<"6", "0", "d">>).duration \/ duration = 0
    THEN <<"1", "w">>
    ELSE IF duration > rpStringToInt64(<<"2", "d">>).duration
    THEN <<"1", "d">>
    ELSE <<"1", "h">>

\* a policy that does not convert being cached all the same
InvalidPolicyCached(st, newRetentionPolicy, err) ==
    [st |-> [st EXCEPT !.db.RetentionPolicy = newRetentionPolicy], err |-> err]

\* duration, err := rpStringToInt64(newRetentionPolicy); if err != nil
\* { return }: the state is left as it is
InvalidPolicy(st, newRetentionPolicy, err) == [st |-> st, err |-> err]

\* an update that sets the shard group duration and forgets the retention
UpdatedBucketShardOnly(bucket, duration, shardGroupDurationSeconds) ==
    [bucket EXCEPT !.ShardGroupDurationSeconds = shardGroupDurationSeconds]

\* bucket.RetentionRules[0].EverySeconds = duration;
\* bucket.RetentionRules[0].ShardGroupDurationSeconds =
\* &shardGroupDurationSeconds: the bucket handed to UpdateBucket
UpdatedBucket(bucket, duration, shardGroupDurationSeconds) ==
    [bucket EXCEPT !.EverySeconds = duration,
                   !.ShardGroupDurationSeconds = shardGroupDurationSeconds]

\* the body of UpdateTimeSeriesDBRetentionPolicy on the state st
UpdateBucketOutcome(st, newRetentionPolicy, storeAccepts) ==
    LET bucketName == st.db.Name
        duration == rpStringToInt64(newRetentionPolicy)
        shardGroupDurationSeconds ==
            rpStringToInt64(ShardGroupDuration(duration.duration)).duration
    IN  IF bucketName \notin DOMAIN st.buckets THEN [st |-> st, err |-> "notfound"]
        ELSE IF duration.err # "nil"
        THEN InvalidPolicy(st, newRetentionPolicy, duration.err)
        ELSE IF ~storeAccepts THEN [st |-> st, err |-> "store"]
        ELSE [st |-> [st EXCEPT
                         !.buckets = WithBucket(st.buckets, bucketName,
                             UpdatedBucket(st.buckets[bucketName], duration.duration,
                                           shardGroupDurationSeconds)),
                         !.db.RetentionPolicy = newRetentionPolicy],
              err |-> "nil"]

\* the cache after a deletion with the retention policy left in place
ClearedKeepsPolicy(timeSeriesDB) == [timeSeriesDB EXCEPT !.Name = ""]

\* tscd.timeSeriesDB.Name = ""; tscd.timeSeriesDB.RetentionPolicy = ""
Cleared(timeSeriesDB) == [timeSeriesDB EXCEPT !.Name = "", !.RetentionPolicy = <<>>]

\* the body of DeleteTimeSeriesDB on the state st
DeleteBucketOutcome(st, storeAccepts) ==
    LET bucketName == st.db.Name
    IN  IF bucketName \notin DOMAIN st.buckets THEN [st |-> st, err |-> "notfound"]
        ELSE IF ~storeAccepts THEN [st |-> st, err |-> "store"]
        ELSE [st |-> [st EXCEPT
                         !.buckets = WithoutBucket(st.buckets, bucketName),
                         !.db = Cleared(st.db)],
              err |-> "nil"]

\* the seconds Get adds to the age of the bucket for the start of its range
QueryMargin == 5

\* time.Since(CreatedTime).Truncate(time.Second) + 5 * time.Second, in
\* seconds.  For the zero CreatedTime time.Since saturates at the largest
\* Duration and the addition wraps around int64 to a negative Duration,
\* for which the "-%s" of the query text is no duration of the query
\* language: the range is invalid.
StartRange(st) ==
    IF st.db.CreatedTime = ZeroTime THEN [valid |-> FALSE, seconds |-> 0]
    ELSE [valid |-> TRUE, seconds |-> (st.now - st.db.CreatedTime) + QueryMargin]

\* the points the query of Get selects: those of the bucket with the
\* measurement and the field, from start to now
Selected(st, measurement, key) ==
    LET data == st.buckets[st.db.Name].data
        start == st.now - StartRange(st).seconds
    IN  {i \in 1..Len(data) :
            /\ data[i].measurement = measurement
            /\ key \in DOMAIN data[i].fields
            /\ start <= data[i].time /\ data[i].time <= st.now}

\* the result of Get: the value of the record last() keeps, nil when the
\* query fails or selects nothing; the error returned is always nil
GetResult(st, measurement, key) ==
    IF st.db.Name \notin DOMAIN st.buckets \/ ~StartRange(st).valid THEN Null
    ELSE LET sel == Selected(st, measurement, key)
             data == st.buckets[st.db.Name].data
         IN  IF sel = {} THEN Null
             ELSE LET last == CHOOSE i \in sel :
                                  \A j \in sel : data[j].time <= data[i].time
                  IN  data[last].fields[key]

\* a deletion that takes the points of every measurement in the window
DeletedWhateverMeasurement(data, measurement, startTime, stopTime) ==
    SelectSeq(data, LAMBDA p : ~(startTime <= p.time /\ p.time <= stopTime))

\* what deleteAPI.DeleteWithName(ctx, org, bucket, startTime, stopTime,
\* "_measurement=<measurement>") leaves of the bucket's points
Deleted(data, measurement, startTime, stopTime) ==
    SelectSeq(data, LAMBDA p : ~(/\ p.measurement = measurement
                                 /\ startTime <= p.time /\ p.time <= stopTime))

\* the body of DropMeasurement on the state st: the window runs from the
\* cached CreatedTime to time.Now(); the error of the store is logged and
\* returned
DropMeasurementOutcome(st, measurement, storeAccepts) ==
    LET bucketName == st.db.Name
        startTime == st.db.CreatedTime
        stopTime == st.now
    IN  IF bucketName \notin DOMAIN st.buckets THEN [st |-> st, err |-> "notfound"]
        ELSE IF ~storeAccepts THEN [st |-> st, err |-> "store"]
        ELSE [st |-> [st EXCEPT
                         !.buckets = WithBucket(st.buckets, bucketName,
                             [st.buckets[bucketName] EXCEPT
                                 !.data = Deleted(@, measurement, startTime, stopTime)])],
              err |-> "nil"]

DbInit ==
    /\ call = [op |-> "none"]
    /\ ret = Pending
    /\ points = <<>>
    /\ now = 0
    /\ ncalls = 0
    /\ db = NewTimeSeriesClientData(DbName)
    /\ buckets \in {NoBuckets,
                    WithBucket(NoBuckets, DbName, Bucket(0, 0, 0, <<>>)),
                    WithBucket(NoBuckets, DbName, Bucket(PriorRetention, 0, 0, <<>>))}
    /\ client = Connected

\* a facade call of the database specification starts
DbCall ==
    /\ Alive
    /\ ncalls < MaxDbCalls
    /\ ncalls' = ncalls + 1

\* tscd.CreateTimeSeriesDBWithRetentionPolicy(retentionPolicy)
CreateTimeSeriesDBWithRetentionPolicy(retentionPolicy, orgFound, storeAccepts) ==
    /\ DbCall
    /\ call' = [op |-> "CreateTimeSeriesDBWithRetentionPolicy",
                retentionPolicy |-> retentionPolicy,
                orgFound |-> orgFound, storeAccepts |-> storeAccepts]
    /\ LET r == CreateBucketOutcome(World, retentionPolicy, orgFound, storeAccepts)
       IN  ret' = [err |-> r.err] /\ Becomes(r.st)

\* tscd.CreateTimeSeriesDB()
CreateTimeSeriesDB(orgFound, storeAccepts) ==
    /\ DbCall
    /\ call' = [op |-> "CreateTimeSeriesDB", retentionPolicy |-> <<>>,
                orgFound |-> orgFound, storeAccepts |-> storeAccepts]
    /\ LET r == CreateBucketOutcome(World, <<>>, orgFound, storeAccepts)
       IN  ret' = [err |-> r.err] /\ Becomes(r.st)

\* tscd.DeleteTimeSeriesDB()
DeleteTimeSeriesDB(storeAccepts) ==
    /\ DbCall
    /\ call' = [op |-> "DeleteTimeSeriesDB", storeAccepts |-> storeAccepts]
    /\ LET r == DeleteBucketOutcome(World, storeAccepts)
       IN  ret' = [err |-> r.err] /\ Becomes(r.st)

\* tscd.UpdateTimeSeriesDBRetentionPolicy(newRetentionPolicy)
UpdateTimeSeriesDBRetentionPolicy(newRetentionPolicy, storeAccepts) ==
    /\ DbCall
    /\ call' = [op |-> "UpdateTimeSeriesDBRetentionPolicy",
                retentionPolicy |-> newRetentionPolicy, storeAccepts |-> storeAccepts]
    /\ LET r == UpdateBucketOutcome(World, newRetentionPolicy, storeAccepts)
       IN  ret' = [err |-> r.err] /\ Becomes(r.st)

\* tscd.Set(measurement, key, value)
Set(measurement, key, value) ==
    /\ DbCall
    /\ call' = [op |-> "Set", measurement |-> measurement, key |-> key, value |-> value]
    /\ ret' = [err |-> "nil"]
    /\ Becomes(WritePoint(World, measurement, EmptyMap, Put(EmptyMap, key, value)))

\* tscd.Get(measurement, key)
Get(measurement, key) ==
    /\ DbCall
    /\ call' = [op |-> "Get", measurement |-> measurement, key |-> key]
    /\ ret' = [result |-> GetResult(World, measurement, key), err |-> "nil"]
    /\ Becomes(World)

\* tscd.DropMeasurement(measurement)
DropMeasurement(measurement, storeAccepts) ==
    /\ DbCall
    /\ call' = [op |-> "DropMeasurement", measurement |-> measurement,
                storeAccepts |-> storeAccepts]
    /\ LET r == DropMeasurementOutcome(World, measurement, storeAccepts)
       IN  ret' = [err |-> r.err] /\ Becomes(r.st)

DbNext ==
    \/ \E t \in CreateTexts, orgFound \in BOOLEAN, storeAccepts \in BOOLEAN :
          CreateTimeSeriesDBWithRetentionPolicy(t, orgFound, storeAccepts)
    \/ \E orgFound \in BOOLEAN, storeAccepts \in BOOLEAN :
          CreateTimeSeriesDB(orgFound, storeAccepts)
    \/ \E storeAccepts \in BOOLEAN : DeleteTimeSeriesDB(storeAccepts)
    \/ \E t \in RetentionTexts, storeAccepts \in BOOLEAN :
          UpdateTimeSeriesDBRetentionPolicy(t, storeAccepts)
    \/ \E m \in DbMeasurements, storeAccepts \in BOOLEAN :
          DropMeasurement(m, storeAccepts)
    \/ \E m \in DbMeasurements, k \in SetKeys, v \in SetValues : Set(m, k, v)
    \/ \E m \in DbMeasurements, k \in SetKeys : Get(m, k)

DbSpec == DbInit /\ [][DbNext]_vars


(***************************************************************************)
(* The connection and the goroutines WritePoint starts: src/stsl.go,       *)
(* CreateTimeSeriesConnection and WritePoint.  The Go scheduler runs a     *)
(* goroutine that can receive from its channel.                            *)
(***************************************************************************)

\* Most clients one facade makes in a run, the one of its set-up included.
MaxClients == 3

\* what the health check of a new client answers: the status pass, an
\* error, or another status without an error
Healths == {"pass", "error", "fail"}

\* the error channels of the model's clients and bucket names
Channels == {<<c, n>> : c \in 1..MaxClients, n \in {DbName, ""}}

ConnInit ==
    /\ call = [op |-> "none"]
    /\ ret = Pending
    /\ points = <<>>
    /\ now = 0
    /\ ncalls = 0
    /\ db = NewTimeSeriesClientData(DbName)
    /\ buckets \in {NoBuckets, WithBucket(NoBuckets, DbName, Bucket(0, 0, 0, <<>>))}
    /\ client = Connected

\* tscd.CreateTimeSeriesConnection(): a health check that answers a status
\* other than pass without an error ends in err.Error() on a nil err, after
\* which the deferred Close still runs
CreateTimeSeriesConnection(health) ==
    /\ DbCall
    /\ client.nclients < MaxClients
    /\ call' = [op |-> "CreateTimeSeriesConnection", health |-> health]
    /\ ret' = [err |-> IF health = "pass" THEN "nil"
                       ELSE IF health = "error" THEN "health" ELSE "panic"]
    /\ Becomes([World EXCEPT !.client = Connect(@)])

\* tscd.WritePoint(measurement, tags, fields), called by a user of the
\* package
CallWritePoint(measurement, tags, fields) ==
    /\ DbCall
    /\ call' = [op |-> "WritePoint", measurement |-> measurement,
                tags |-> tags, fields |-> fields]
    /\ ret' = [err |-> "nil"]
    /\ Becomes(WritePoint(World, measurement, tags, fields))

\* one turn of a goroutine started by WritePoint: for err := range errorsCh
\* { log.Error() } receives an error the write API is waiting to hand over
Listen(errorsCh) ==
    /\ Alive
    /\ errorsCh \in DOMAIN client.live
    /\ client.live[errorsCh] > 0
    /\ client.pending[errorsCh] > 0
    /\ client' = [client EXCEPT !.pending[errorsCh] = @ - 1, !.logged = @ + 1]
    /\ UNCHANGED <<call, ret, points, now, ncalls, db, buckets>>

ConnNext ==
    \/ \E health \in Healths : CreateTimeSeriesConnection(health)
    \/ \E m \in DbMeasurements :
          CallWritePoint(m, EmptyMap, Put(EmptyMap, "a", Float64Val("1")))
    \/ \E m \in DbMeasurements, k \in SetKeys, v \in SetValues : Set(m, k, v)
    \/ \E errorsCh \in Channels : Listen(errorsCh)

\* the scheduler lets a goroutine that can receive an error do so
ConnSpec ==
    /\ ConnInit
    /\ [][ConnNext]_vars
    /\ \A errorsCh \in Channels : WF_vars(Listen(errorsCh))


(***************************************************************************)
(* The duration grammar (\d+[wdhms])* as the specification states it,      *)
(* read from the end of the text: the reference the codec is held to.      *)
(***************************************************************************)

DigitChars == {"0", "1", "2", "3", "4", "5", "6", "7", "8", "9"}

\* the decimal value of a run of digit characters
RECURSIVE DecimalValue(_, _)
DecimalValue(run, acc) ==
    IF run = <<>> THEN acc
    ELSE DecimalValue(Tail(run),
             10 * acc + (CHOOSE v \in 0..9 : FormatInt(v) = <<Head(run)>>))

\* the seconds of one unit: w=604800, d=86400, h=3600, m=60, s=1
UnitSecondsOfSpec(u) ==
    CASE u = "w" -> 604800 [] u = "d" -> 86400 [] u = "h" -> 3600
      [] u = "m" -> 60 [] u = "s" -> 1

\* the index at which the digit run ending just before position j starts
RECURSIVE RunStart(_, _)
RunStart(t, j) ==
    IF j > 1 /\ t[j - 1] \in DigitChars THEN RunStart(t, j - 1) ELSE j

\* the components <<count digits, unit>> of a text of the grammar, in text
\* order; <<"none">> when the text is not of the grammar
RECURSIVE GrammarComponents(_)
GrammarComponents(t) ==
    IF t = <<>> THEN <<>>
    ELSE LET n == Len(t)
             b == RunStart(t, n)
         IN  IF t[n] \notin UnitLetters \/ b = n THEN <<"none">>
             ELSE LET front == GrammarComponents(SubSeq(t, 1, b - 1))
                  IN  IF front = <<"none">> THEN <<"none">>
                      ELSE Append(front, <<SubSeq(t, b, n - 1), t[n]>>)

InGrammar(t) == GrammarComponents(t) # <<"none">>

RECURSIVE ComponentsSum(_)
ComponentsSum(comps) ==
    IF comps = <<>> THEN 0
    ELSE DecimalValue(comps[1][1], 0) * UnitSecondsOfSpec(comps[1][2])
             + ComponentsSum(Tail(comps))

UnitRank(u) ==
    CASE u = "w" -> 1 [] u = "d" -> 2 [] u = "h" -> 3 [] u = "m" -> 4 [] u = "s" -> 5

\* the largest count a component of unit u may carry in a greedy
\* decomposition: any for weeks, < 7 days, < 24 hours, < 60 minutes/seconds
UnitLimit(u, n) ==
    CASE u = "w" -> n + 1 [] u = "d" -> 7 [] u = "h" -> 24 [] u = "m" -> 60 [] u = "s" -> 60

Returned == ret # Pending

\* C1: round-trip law: for every n >= 0 (n in Seconds),
\* rpStringToInt64(rpInt64ToString(n)) returns n and no error.
C1_RoundTrip ==
    (call.op = "RoundTrip") => (ret.err = "nil" /\ ret.duration = call.seconds)

C1_Witness ==
    /\ call.op = "RoundTrip"
    /\ call.seconds = 3 * 604800 + 4 * 86400 + 12 * 60 + 30
    /\ call.text = <<"3", "w", "4", "d", "1", "2", "m", "3", "0", "s">>
    /\ ret.duration = call.seconds

\* C2: on every text of the grammar (\d+[wdhms])*, the empty text and texts
\* with a repeated unit included, rpStringToInt64 returns no error and the
\* sum of digits x unitSeconds over all the components; "" gives 0,
\* "3w4d12m30s" gives 3*604800+4*86400+12*60+30 and "5s10s" gives 15.
C2_GrammarSum ==
    (call.op = "ToSeconds" /\ Returned /\ InGrammar(call.text)) =>
        /\ ret.err = "nil"
        /\ ret.duration = ComponentsSum(GrammarComponents(call.text))
        /\ (call.text = <<>> => ret.duration = 0)
        /\ (call.text = <<"3", "w", "4", "d", "1", "2", "m", "3", "0", "s">>
                => ret.duration = 3 * 604800 + 4 * 86400 + 12 * 60 + 30)
        /\ (call.text = <<"5", "s", "1", "0", "s">> => ret.duration = 15)

C2_Witness ==
    /\ call.op = "ToSeconds"
    /\ call.text = <<"5", "s", "1", "0", "s">>
    /\ Returned
    /\ ret.duration = 15

\* C3: rpInt64ToString maps 0 to the empty text and every n > 0 to its
\* greedy decomposition: components <count><unit> with no separators, unit
\* letters in the order w,d,h,m,s and each at most once, every count
\* non-zero (written without a leading zero), days < 7, hours < 24,
\* minutes < 60, seconds < 60, the components adding up to n.
C3_GreedyDecomposition ==
    (call.op = "ToString" /\ Returned) =>
        LET comps == GrammarComponents(ret.text) IN
        /\ (call.seconds = 0 <=> ret.text = <<>>)
        /\ InGrammar(ret.text)
        /\ \A i \in 1..Len(comps) :
              /\ comps[i][1][1] # "0"
              /\ DecimalValue(comps[i][1], 0) > 0
              /\ DecimalValue(comps[i][1], 0) < UnitLimit(comps[i][2], call.seconds)
              /\ \A j \in 1..Len(comps) :
                    i < j => UnitRank(comps[i][2]) < UnitRank(comps[j][2])
        /\ ComponentsSum(comps) = call.seconds

C3_Witness ==
    /\ call.op = "ToString"
    /\ call.seconds = 2 * 604800 + 6 * 86400 + 59
    /\ Returned
    /\ ret.text = <<"2", "w", "6", "d", "5", "9", "s">>

\* C4: on a text holding a character that is neither a digit nor one of
\* w,d,h,m,s, wherever it stands, rpStringToInt64 fails with the invalid
\* unit error and returns 0, not the sum of the components before it.
C4_InvalidUnit ==
    (call.op = "ToSeconds" /\ Returned
        /\ \E i \in 1..Len(call.text) : call.text[i] \notin DigitChars \cup UnitLetters) =>
        (ret.err = "InvalidUnit" /\ ret.duration = 0)

C4_Witness ==
    /\ call.op = "ToSeconds"
    /\ call.text = <<"3", "w", "4", "d", "x", "3", "0", "s">>
    /\ Returned
    /\ ret = [duration |-> 0, err |-> "InvalidUnit"]

(***************************************************************************)
(* The flattening the specification describes, read off the tree.          *)
(***************************************************************************)

\* the dotted path of subkey under prefix, with no leading dot
PathKey(prefix, subkey) == IF prefix = "" THEN subkey ELSE prefix \o "." \o subkey

\* <<dotted path, leaf>> for every leaf of v, v standing at path prefix
RECURSIVE LeafEntries(_, _)
LeafEntries(v, prefix) ==
    CASE v.kind = "Map" ->
             UNION {LeafEntries(v.members[k], PathKey(prefix, k)) : k \in DOMAIN v.members}
      [] v.kind = "Slice" ->
             UNION {LeafEntries(v.elems[i], PathKey(prefix, Itoa(i - 1))) :
                        i \in 1..Len(v.elems)}
      [] OTHER -> {<<prefix, v>>}

\* the dotted paths of all the values beneath v (leaves and containers)
RECURSIVE PathsBeneath(_, _)
PathsBeneath(v, prefix) ==
    CASE v.kind = "Map" ->
             UNION {{PathKey(prefix, k)} \cup PathsBeneath(v.members[k], PathKey(prefix, k)) :
                        k \in DOMAIN v.members}
      [] v.kind = "Slice" ->
             UNION {{PathKey(prefix, Itoa(i - 1))}
                        \cup PathsBeneath(v.elems[i], PathKey(prefix, Itoa(i - 1))) :
                        i \in 1..Len(v.elems)}
      [] OTHER -> {}

\* the mapping holding exactly the given <<key, value>> entries
RowOf(entries) ==
    [key \in {e[1] : e \in entries} |-> (CHOOSE e \in entries : e[1] = key)[2]]

InList(list, x) == \E i \in 1..Len(list) : list[i] = x

\* some object key of v, at any depth, is in the ignore list
RECURSIVE HasIgnoredKey(_, _)
HasIgnoredKey(v, ignore) ==
    CASE v.kind = "Map" ->
             \E k \in DOMAIN v.members :
                 InList(ignore, k) \/ HasIgnoredKey(v.members[k], ignore)
      [] v.kind = "Slice" -> \E i \in 1..Len(v.elems) : HasIgnoredKey(v.elems[i], ignore)
      [] OTHER -> FALSE

\* some array of v, at any depth, has a nil element
RECURSIVE HasNilElement(_)
HasNilElement(v) ==
    CASE v.kind = "Map" -> \E k \in DOMAIN v.members : HasNilElement(v.members[k])
      [] v.kind = "Slice" ->
             \E i \in 1..Len(v.elems) : v.elems[i] = Null \/ HasNilElement(v.elems[i])
      [] OTHER -> FALSE

\* the opaque value of an exempted v: its compact JSON text when it is an
\* Object or Array, v itself otherwise
Opaque(v) == IF v.kind \in {"Map", "Slice"} THEN StringVal(MarshalText(v)) ELSE v

\* <<output key, value>> for every ignored object key Flatten meets: the
\* walk goes down through members that are not ignored and array elements
RECURSIVE IgnoredMet(_, _, _)
IgnoredMet(v, prefix, ignore) ==
    CASE v.kind = "Map" ->
             UNION {IF InList(ignore, k)
                    THEN {<<PathKey(prefix, k), v.members[k]>>}
                    ELSE IgnoredMet(v.members[k], PathKey(prefix, k), ignore) :
                        k \in DOMAIN v.members}
      [] v.kind = "Slice" ->
             UNION {IgnoredMet(v.elems[i], PathKey(prefix, Itoa(i - 1)), ignore) :
                        i \in 1..Len(v.elems)}
      [] OTHER -> {}

\* <<path of the element, element>> for every array element Flatten meets
\* that is an Object with a key in the ignore list and a key not in it
RECURSIVE MixedElementsMet(_, _, _)
MixedElementsMet(v, prefix, ignore) ==
    CASE v.kind = "Map" ->
             UNION {IF InList(ignore, k) THEN {}
                    ELSE MixedElementsMet(v.members[k], PathKey(prefix, k), ignore) :
                        k \in DOMAIN v.members}
      [] v.kind = "Slice" ->
             UNION {LET e == v.elems[i]
                        at == PathKey(prefix, Itoa(i - 1))
                    IN  (IF /\ e.kind = "Map"
                            /\ \E t \in DOMAIN e.members : InList(ignore, t)
                            /\ \E t \in DOMAIN e.members : ~InList(ignore, t)
                         THEN {<<at, e>>} ELSE {})
                        \cup MixedElementsMet(e, at, ignore) :
                        i \in 1..Len(v.elems)}
      [] OTHER -> {}

FlattenReturned == call.op = "Flatten" /\ Returned

\* C5: for every JSON object none of whose keys at any depth is in the
\* ignore list, Flatten(value, "", ignore) returns a mapping with exactly
\* one entry per leaf of the tree and no other: keyed by the '.'-joined
\* object keys and decimal array indices of the leaf's path, with no
\* leading dot, and holding that leaf.
C5_OneEntryPerLeaf ==
    (FlattenReturned /\ ~HasIgnoredKey(call.nested, call.ignore)) =>
        /\ ret.err = "nil"
        /\ ret.flatMap = RowOf(LeafEntries(call.nested, ""))

\* C5, on the objects no array of which has a nil element: there every
\* leaf has its entry.
C5_WithoutNilElements ==
    (FlattenReturned /\ ~HasIgnoredKey(call.nested, call.ignore)
        /\ ~HasNilElement(call.nested)) =>
        /\ ret.err = "nil"
        /\ ret.flatMap = RowOf(LeafEntries(call.nested, ""))

\* C6: when Flatten (root prefix "") returns a mapping, every ignored
\* object key k it met has exactly one entry, keyed k itself under an empty
\* prefix and by the dotted path otherwise, holding the compact JSON text
\* of the value when it is an Object or Array and the value itself
\* otherwise; nothing beneath that key is in the output.
C6_IgnoredKeyOpaque ==
    (FlattenReturned /\ ret.err = "nil") =>
        \A occ \in IgnoredMet(call.nested, "", call.ignore) :
            /\ occ[1] \in DOMAIN ret.flatMap
            /\ ret.flatMap[occ[1]] = Opaque(occ[2])
            /\ \A below \in PathsBeneath(occ[2], occ[1]) : below \notin DOMAIN ret.flatMap

C6_Witness ==
    /\ FlattenReturned
    /\ ret.err = "nil"
    /\ call.ignore = <<"k", "a">>
    /\ \E occ \in IgnoredMet(call.nested, "", call.ignore) :
          /\ occ[1] = "a"
          /\ occ[2].kind = "Map"
          /\ "k" \in DOMAIN occ[2].members
          /\ ret.flatMap["a"].kind = "String"

\* C7, as stated: for an array element at index i that is an Object with a
\* key in the ignore list, a tag of it that is not in the list leaves the
\* whole element, unflattened, under the key createKey(prefix, i).
C7_WholeElementStored ==
    (FlattenReturned /\ ret.err = "nil") =>
        \A el \in MixedElementsMet(call.nested, "", call.ignore) :
            /\ el[1] \in DOMAIN ret.flatMap
            /\ ret.flatMap[el[1]] = el[2]

\* C7, amended: when Flatten returns a mapping, such an element has no
\* entry of its own under createKey(prefix, i): each of its ignored tags
\* has the opaque entry createKey(prefix, i + "." + tag), and the element is
\* flattened for the others, a tag not in the list holding a scalar having
\* the entry createKey(prefix, i) + "." + tag with that scalar, one holding
\* an Object or Array having no entry of its own.
C7_ElementFlattened ==
    (FlattenReturned /\ ret.err = "nil") =>
        \A el \in MixedElementsMet(call.nested, "", call.ignore) :
            /\ el[1] \notin DOMAIN ret.flatMap
            /\ \A t \in DOMAIN el[2].members :
                  LET x  == el[2].members[t]
                      at == el[1] \o "." \o t
                  IN  IF InList(call.ignore, t)
                      THEN at \in DOMAIN ret.flatMap /\ ret.flatMap[at] = Opaque(x)
                      ELSE IF x.kind \in {"Map", "Slice"}
                           THEN at \notin DOMAIN ret.flatMap
                           ELSE at \in DOMAIN ret.flatMap /\ ret.flatMap[at] = x

C7_Witness ==
    /\ FlattenReturned
    /\ ret.err = "nil"
    /\ call.ignore = <<"k">>
    /\ \E el \in MixedElementsMet(call.nested, "", call.ignore) :
          /\ el[1] = "a.0"
          /\ DOMAIN ret.flatMap = {"a.0.k", "a.0.a"}

\* C8: when Flatten fails it returns the error and no FlatRow: the mapping
\* handed back holds none of the entries produced before the failure.
C8_NoPartialRow ==
    (FlattenReturned /\ ret.err \notin {"nil", "panic"}) => ret.flatMap = EmptyMap

(***************************************************************************)
(* The ingestion the specification describes.                              *)
(***************************************************************************)

\* the entries of a FlatRow holding a float64, string, bool or int
SupportedEntries(row) ==
    [key \in {k \in DOMAIN row : row[k].kind \in {"Float64", "String", "Bool", "Int"}} |->
        row[key]]

\* the step is a call of op
Called(op) == ncalls' = ncalls + 1 /\ call'.op = op

\* the jsonBuffer is an array of objects
IsObjectArray(jsonBuffer) ==
    /\ jsonBuffer.kind = "Slice"
    /\ \A i \in 1..Len(jsonBuffer.elems) : jsonBuffer.elems[i].kind = "Map"

\* the step appends exactly one point: empty tags, and the supported
\* entries of Flatten(object) as fields
WritesFlattened(object, ignoreList) ==
    /\ Len(points') = Len(points) + 1
    /\ \A i \in 1..Len(points) : points'[i] = points[i]
    /\ \E o \in Flatten(object, "", ignoreList) :
          /\ o.err = "nil"
          /\ points'[Len(points) + 1].tags = EmptyMap
          /\ points'[Len(points) + 1].fields = SupportedEntries(o.flatMap)

\* C9: InsertJson on bytes that decode to a JSON object issues exactly one
\* WritePoint, with an empty tag set and as fields exactly the entries of
\* Flatten(object) holding a float64, string, bool or int, and returns no
\* error.
C9_OneWritePerObject ==
    [][(Called("InsertJson") /\ call'.jsonBuffer.kind = "Map") =>
          /\ ret'.err = "nil"
          /\ WritesFlattened(call'.jsonBuffer, call'.ignoreList)]_vars

\* C9, on the objects no array of which has a nil element: there the one
\* point is written.
C9_WithoutNilElements ==
    [][(Called("InsertJson") /\ call'.jsonBuffer.kind = "Map"
            /\ ~HasNilElement(call'.jsonBuffer)) =>
          /\ ret'.err = "nil"
          /\ WritesFlattened(call'.jsonBuffer, call'.ignoreList)]_vars

\* C10: for every element k of the array given to InsertJsonArray, the
\* point written for element k has as fields exactly the supported entries
\* of Flatten(element k), so no field whose key occurs only in another
\* element.
C10_RowFieldsOwn ==
    [][(Called("InsertJsonArray") /\ IsObjectArray(call'.jsonBuffer)) =>
          \A k \in 1..Len(call'.jsonBuffer.elems) :
              Len(points) + k <= Len(points') =>
                  \E o \in Flatten(call'.jsonBuffer.elems[k], "", call'.ignoreList) :
                      /\ o.err = "nil"
                      /\ points'[Len(points) + k].fields = SupportedEntries(o.flatMap)]_vars

\* C10, for the first element alone: its point has its own fields.
C10_FirstRowFieldsOwn ==
    [][(Called("InsertJsonArray") /\ IsObjectArray(call'.jsonBuffer)) =>
          (Len(points) + 1 <= Len(points') =>
              \E o \in Flatten(call'.jsonBuffer.elems[1], "", call'.ignoreList) :
                  /\ o.err = "nil"
                  /\ points'[Len(points) + 1].fields = SupportedEntries(o.flatMap))]_vars

\* sub is part of row: every entry of sub is an entry of row
SubRow(sub, row) ==
    \A key \in DOMAIN sub : key \in DOMAIN row /\ row[key] = sub[key]

\* the step appends exactly n points and keeps the ones before
AppendsPoints(n) ==
    /\ Len(points') = Len(points) + n
    /\ \A i \in 1..Len(points) : points'[i] = points[i]

\* the points the step appends, one per element in order, carry the
\* supported entries of their element and timestamps within the call
PointsFollowElements(elems, ignoreList) ==
    \A k \in 1..Len(elems) :
        Len(points) + k <= Len(points') =>
            LET p == points'[Len(points) + k] IN
            /\ \E o \in Flatten(elems[k], "", ignoreList) :
                  o.err = "nil" /\ SubRow(SupportedEntries(o.flatMap), p.fields)
            /\ now <= p.time /\ p.time <= now'
            /\ k > 1 => points'[Len(points) + k - 1].time <= p.time

\* C11: InsertJsonArray on an array of n JSON objects issues exactly n
\* point writes, one per element in array order, with timestamps between
\* the start of the call and its return, non-decreasing in row order; for
\* n = 0 nothing is written; no error is returned.
C11_OnePointPerElement ==
    [][(Called("InsertJsonArray") /\ IsObjectArray(call'.jsonBuffer)) =>
          /\ ret'.err = "nil"
          /\ AppendsPoints(Len(call'.jsonBuffer.elems))
          /\ PointsFollowElements(call'.jsonBuffer.elems, call'.ignoreList)]_vars

\* C11, on the arrays whose objects hold no array with a nil element: there
\* every element has its point.
C11_WithoutNilElements ==
    [][(Called("InsertJsonArray") /\ IsObjectArray(call'.jsonBuffer)
            /\ ~HasNilElement(call'.jsonBuffer)) =>
          /\ ret'.err = "nil"
          /\ AppendsPoints(Len(call'.jsonBuffer.elems))
          /\ PointsFollowElements(call'.jsonBuffer.elems, call'.ignoreList)]_vars

\* the rows the row loop of the call is given: those decoded from the
\* buffer of InsertJsonArray, or those handed to InsertUnmarshalledJsonRows
RowsOfCall(c) ==
    IF c.op = "InsertUnmarshalledJsonRows" THEN c.rows
    ELSE IF c.op = "InsertJsonArray" /\ IsObjectArray(c.jsonBuffer) THEN c.jsonBuffer.elems
    ELSE <<>>

\* flattening the row fails, whatever the order its keys are visited in
FlattenFails(row, ignoreList) ==
    \A o \in Flatten(row, "", ignoreList) : o.err # "nil"

\* the first row of rows whose flattening fails, 0 when none does
FirstBadRow(rows, ignoreList) ==
    IF \E k \in 1..Len(rows) : FlattenFails(rows[k], ignoreList)
    THEN CHOOSE k \in 1..Len(rows) :
            /\ FlattenFails(rows[k], ignoreList)
            /\ \A j \in 1..(k - 1) : ~FlattenFails(rows[j], ignoreList)
    ELSE 0

\* C12: if flattening row k fails, no point is written for row k or for a
\* later row, and the points written for the rows before k stay written.
C12_AbortsAtFirstBadRow ==
    [][(Called("InsertJsonArray") \/ Called("InsertUnmarshalledJsonRows")) =>
          LET bad == FirstBadRow(RowsOfCall(call'), call'.ignoreList) IN
          bad > 0 => AppendsPoints(bad - 1)]_vars

\* C12, for the rows before the first bad one: their points are written and
\* stay written.
C12_EarlierRowsStay ==
    [][(Called("InsertJsonArray") \/ Called("InsertUnmarshalledJsonRows")) =>
          LET bad == FirstBadRow(RowsOfCall(call'), call'.ignoreList) IN
          bad > 0 =>
              /\ Len(points') >= Len(points) + bad - 1
              /\ \A i \in 1..Len(points) : points'[i] = points[i]]_vars

\* C13: InsertJson on bytes that do not decode to a JSON object, and
\* InsertJsonArray on bytes that do not decode to an array of JSON objects,
\* return the decode error and write no point.
C13_DecodeErrorNoWrite ==
    [][/\ (Called("InsertJson") /\ call'.jsonBuffer.kind # "Map") =>
              (ret'.err = "decode" /\ points' = points)
       /\ (Called("InsertJsonArray") /\ ~IsObjectArray(call'.jsonBuffer)) =>
              (ret'.err = "decode" /\ points' = points)]_vars

\* the document is null, or an array with a null element
HoldsTopNull(jsonBuffer) ==
    \/ jsonBuffer.kind = "Null"
    \/ /\ jsonBuffer.kind = "Slice"
       /\ \E i \in 1..Len(jsonBuffer.elems) : jsonBuffer.elems[i].kind = "Null"

\* C13, on the bytes that are no JSON text or hold a value other than null
\* where an object is expected: there the decode error comes back and
\* nothing is written.
C13_WithoutNull ==
    [][/\ (Called("InsertJson") /\ call'.jsonBuffer.kind \notin {"Map", "Null"}) =>
              (ret'.err = "decode" /\ points' = points)
       /\ (Called("InsertJsonArray") /\ ~IsObjectArray(call'.jsonBuffer)
               /\ ~HoldsTopNull(call'.jsonBuffer)) =>
              (ret'.err = "decode" /\ points' = points)]_vars

(***************************************************************************)
(* The database management and key/value access the specification         *)
(* describes.                                                              *)
(***************************************************************************)

\* the bucket of the facade's database name exists before the step
BucketExists == db.Name \in DOMAIN buckets

\* the point was written to the facade's bucket and a DropMeasurement has
\* deleted it since
WasDropped(point) ==
    /\ buckets[db.Name].CreatedAt <= point.time
    /\ \A j \in 1..Len(buckets[db.Name].data) : buckets[db.Name].data[j] # point

\* the points written so far for the measurement and the field, with a
\* time from since to now, that no DropMeasurement has deleted
PointsOf(measurement, key, since) ==
    {i \in 1..Len(points) :
        /\ points[i].measurement = measurement
        /\ key \in DOMAIN points[i].fields
        /\ since <= points[i].time /\ points[i].time <= now
        /\ ~WasDropped(points[i])}

\* the step returns the value of the latest of those points, or no result
\* when there is none, and a nil error
ReturnsLatest(measurement, key, since) ==
    LET W == PointsOf(measurement, key, since) IN
    /\ ret'.err = "nil"
    /\ IF W = {} THEN ret'.result = Null
       ELSE \E i \in W :
               /\ \A j \in W : points[j].time <= points[i].time
               /\ ret'.result = points[i].fields[key]

\* C14: after any sequence of Set calls that have returned, Get(m, k) on
\* the bucket of the facade returns the value of the point with the latest
\* timestamp among the points of measurement m and field k written since
\* the bucket was created, and no result with a nil error when there is
\* none.
C14_ReadYourWrites ==
    [][(Called("Get") /\ BucketExists) =>
          ReturnsLatest(call'.measurement, call'.key, buckets[db.Name].CreatedAt)]_vars

\* C14, for a facade whose cached CreatedTime was set by a creation call:
\* there Get returns the latest value.
C14_AfterCreate ==
    [][(Called("Get") /\ BucketExists /\ db.CreatedTime # ZeroTime) =>
          ReturnsLatest(call'.measurement, call'.key, buckets[db.Name].CreatedAt)]_vars

\* the step is a creation call, with or without a retention policy
CalledCreate ==
    Called("CreateTimeSeriesDBWithRetentionPolicy") \/ Called("CreateTimeSeriesDB")

\* the text is a duration: digits and w, d, h, m, s only
ValidDuration(text) ==
    \A i \in 1..Len(text) : text[i] \in DigitChars \cup UnitLetters

\* C15: when a bucket of the facade's database name already exists (and the
\* store finds the facade's organization), a creation call leaves the
\* bucket's retention in the store unchanged, whatever the text, and sets
\* the cached retention policy to ToString(existing retention seconds) and
\* the cached creation time to the bucket's creation time.
C15_ExistingBucketAdopted ==
    [][(CalledCreate /\ BucketExists /\ call'.orgFound) =>
          /\ buckets' = buckets
          /\ db'.RetentionPolicy = rpInt64ToString(buckets[db.Name].EverySeconds)
          /\ db'.CreatedTime = buckets[db.Name].CreatedAt
          /\ db'.Name = db.Name
          /\ ret'.err = "nil"]_vars

C15_Witness ==
    /\ call.op = "CreateTimeSeriesDBWithRetentionPolicy"
    /\ call.retentionPolicy = <<"2", "d">>
    /\ call.orgFound
    /\ ret.err = "nil"
    /\ DbName \in DOMAIN buckets
    /\ buckets[DbName].EverySeconds = PriorRetention
    /\ db.RetentionPolicy = rpInt64ToString(PriorRetention)
    /\ db.RetentionPolicy # <<>>
    /\ db.CreatedTime = buckets[DbName].CreatedAt

\* C16: when no bucket of the facade's database name exists and the text is
\* a valid duration, a creation call the store accepts creates a bucket of
\* that name whose retention is ToSeconds(text) seconds - 0, infinite, for
\* CreateTimeSeriesDB() - and caches that policy and the new bucket's
\* creation time.
C16_BucketCreated ==
    [][(CalledCreate /\ ~BucketExists /\ ValidDuration(call'.retentionPolicy)
            /\ call'.orgFound /\ call'.storeAccepts) =>
          /\ db.Name \in DOMAIN buckets'
          /\ buckets'[db.Name].EverySeconds =
                 ComponentsSum(GrammarComponents(call'.retentionPolicy))
          /\ call'.op = "CreateTimeSeriesDB" => buckets'[db.Name].EverySeconds = 0
          /\ buckets'[db.Name].CreatedAt >= now
          /\ \A n \in DOMAIN buckets : n \in DOMAIN buckets' /\ buckets'[n] = buckets[n]
          /\ db'.RetentionPolicy = call'.retentionPolicy
          /\ db'.CreatedTime = buckets'[db.Name].CreatedAt
          /\ db'.Name = db.Name
          /\ ret'.err = "nil"]_vars

C16_Witness ==
    /\ call.op = "CreateTimeSeriesDBWithRetentionPolicy"
    /\ call.retentionPolicy = <<"2", "d">>
    /\ ret.err = "nil"
    /\ DbName \in DOMAIN buckets
    /\ buckets[DbName].EverySeconds = 2 * 86400
    /\ db.RetentionPolicy = <<"2", "d">>
    /\ db.CreatedTime = buckets[DbName].CreatedAt
    /\ db.CreatedTime # ZeroTime

\* the store operation of the step was reached and rejected by the store
StoreRejects ==
    \/ /\ CalledCreate
       /\ call'.orgFound /\ ~BucketExists /\ ValidDuration(call'.retentionPolicy)
       /\ ~call'.storeAccepts
    \/ /\ Called("UpdateTimeSeriesDBRetentionPolicy")
       /\ BucketExists /\ ValidDuration(call'.retentionPolicy)
       /\ ~call'.storeAccepts
    \/ /\ Called("DeleteTimeSeriesDB")
       /\ BucketExists
       /\ ~call'.storeAccepts

\* C17: a creation, update or deletion call whose store operation fails
\* leaves the cached database name, retention policy and creation time as
\* they were before the call.
C17_CacheKeptOnFailure ==
    [][StoreRejects => db' = db]_vars

\* C17, for the update and the deletion: a rejected one leaves the cache.
C17_UpdateDeleteKeepCache ==
    [][(StoreRejects /\ ~CalledCreate) => (db' = db /\ ret'.err # "nil")]_vars

\* C18: DeleteTimeSeriesDB on an existing bucket removes the bucket of the
\* facade's database name from the store and, the deletion succeeding,
\* sets the cached name and retention policy to empty; when the bucket is
\* not found it deletes nothing.
C18_DeleteClears ==
    [][Called("DeleteTimeSeriesDB") =>
          IF BucketExists
          THEN call'.storeAccepts =>
                  /\ buckets' = WithoutBucket(buckets, db.Name)
                  /\ db'.Name = ""
                  /\ db'.RetentionPolicy = <<>>
                  /\ ret'.err = "nil"
          ELSE buckets' = buckets /\ db' = db /\ ret'.err # "nil"]_vars

C18_Witness ==
    /\ call.op = "DeleteTimeSeriesDB"
    /\ ret.err = "nil"
    /\ ncalls >= 2
    /\ db.Name = ""
    /\ db.RetentionPolicy = <<>>
    /\ DbName \notin DOMAIN buckets

\* the shard group seconds the specification gives for retention d
ShardGroupTier(d) ==
    IF d >= 60 * 86400 \/ d = 0 THEN 604800
    ELSE IF d >= 2 * 86400 THEN 86400
    ELSE 3600

\* the step is an update the store was asked for and accepted
UpdateAccepted ==
    /\ Called("UpdateTimeSeriesDBRetentionPolicy")
    /\ BucketExists /\ ValidDuration(call'.retentionPolicy) /\ call'.storeAccepts

\* C19: UpdateTimeSeriesDBRetentionPolicy(text) pushes to the store the
\* shard group duration 1w when d >= 60d or d = 0, 1d when 2d <= d < 60d
\* and 1h otherwise, d = ToSeconds(text), the boundaries d = 60d and d = 2d
\* belonging to the higher tier.
C19_ShardGroupTiers ==
    [][UpdateAccepted =>
          buckets'[db.Name].ShardGroupDurationSeconds =
              ShardGroupTier(ComponentsSum(GrammarComponents(call'.retentionPolicy)))]_vars

\* C19, off the two boundaries: there the tiers are as stated.
C19_OffBoundary ==
    [][(UpdateAccepted
            /\ ComponentsSum(GrammarComponents(call'.retentionPolicy))
                   \notin {2 * 86400, 60 * 86400}) =>
          /\ buckets'[db.Name].EverySeconds =
                 ComponentsSum(GrammarComponents(call'.retentionPolicy))
          /\ buckets'[db.Name].ShardGroupDurationSeconds =
                 ShardGroupTier(ComponentsSum(GrammarComponents(call'.retentionPolicy)))]_vars

\* C20: UpdateTimeSeriesDBRetentionPolicy(text) with a text holding an
\* unrecognized unit letter, or called when the bucket of the facade's name
\* does not exist, returns an error without updating a bucket of the store
\* and without changing the cached retention policy.
C20_UpdateRefused ==
    [][(Called("UpdateTimeSeriesDBRetentionPolicy")
            /\ (~ValidDuration(call'.retentionPolicy) \/ ~BucketExists)) =>
          /\ ret'.err # "nil"
          /\ buckets' = buckets
          /\ db'.RetentionPolicy = db.RetentionPolicy]_vars

C20_Witness ==
    /\ call.op = "UpdateTimeSeriesDBRetentionPolicy"
    /\ call.retentionPolicy = <<"1", "x">>
    /\ call.storeAccepts
    /\ ret.err = "InvalidUnit"
    /\ DbName \in DOMAIN buckets
    /\ db.RetentionPolicy = <<"1", "h">>
    /\ buckets[DbName].EverySeconds = 3600

(***************************************************************************)
(* Dropping a measurement.                                                 *)
(***************************************************************************)

\* the points of the measurement that the bucket of that name holds, in
\* the order they were written (none when there is no such bucket)
Held(bs, name, measurement) ==
    IF name \in DOMAIN bs
    THEN SelectSeq(bs[name].data, LAMBDA p : p.measurement = measurement)
    ELSE <<>>

\* the step is a write to the measurement
WritesTo(measurement) ==
    /\ Called("Set")
    /\ call'.measurement = measurement

\* C21: after DropMeasurement(m) succeeds the store holds no point of m
\* with a time from the creation of the bucket to the time of the call, the
\* points of every other measurement are as they were, and Get(m, k)
\* returns no result for every k until the next write to m: while the
\* facade's bucket holds no point of m, only a write to m ends that, and a
\* Get of m finds nothing.
C21_DropMeasurement ==
    [][/\ (Called("DropMeasurement") /\ ret'.err = "nil") =>
              /\ db'.Name \in DOMAIN buckets'
              /\ \A i \in 1..Len(buckets'[db'.Name].data) :
                     LET p == buckets'[db'.Name].data[i]
                     IN  ~(/\ p.measurement = call'.measurement
                           /\ buckets'[db'.Name].CreatedAt <= p.time
                           /\ p.time <= now')
              /\ Held(buckets', db'.Name, call'.measurement) = <<>>
              /\ \A n \in DbMeasurements \ {call'.measurement} :
                     Held(buckets', db'.Name, n) = Held(buckets, db.Name, n)
       /\ \A m \in DbMeasurements :
              (Held(buckets, db.Name, m) = <<>> /\ ~WritesTo(m)) =>
                  Held(buckets', db'.Name, m) = <<>>
       /\ (Called("Get") /\ Held(buckets, db.Name, call'.measurement) = <<>>) =>
              ret'.result = Null]_vars

\* a measurement with a stored point was dropped while the bucket held a
\* point of another measurement, which is still there
C21_Witness ==
    /\ call.op = "DropMeasurement"
    /\ ret.err = "nil"
    /\ \E i \in 1..Len(points) : points[i].measurement = call.measurement
    /\ db.Name \in DOMAIN buckets
    /\ Held(buckets, db.Name, call.measurement) = <<>>
    /\ \E n \in DbMeasurements \ {call.measurement} :
           Held(buckets, db.Name, n) # <<>>

(***************************************************************************)
(* Store errors.                                                           *)
(***************************************************************************)

\* a store call of the step fails: the organization or the bucket is not
\* found, the store rejects the operation, the query of Get is refused, or
\* the point is written to a bucket that does not exist
StoreCallFails ==
    \/ StoreRejects
    \/ CalledCreate /\ ~call'.orgFound
    \/ /\ \/ Called("UpdateTimeSeriesDBRetentionPolicy")
          \/ Called("DeleteTimeSeriesDB")
          \/ Called("DropMeasurement")
          \/ Called("Get")
          \/ Called("Set")
       /\ ~BucketExists
    \/ Called("DropMeasurement") /\ BucketExists /\ ~call'.storeAccepts
    \/ Called("Get") /\ BucketExists /\ ~StartRange(World).valid

\* C22: every facade operation whose store call fails returns that store
\* error to its caller: it never returns a nil error (nor ends the process)
\* after a failed store call.
C22_StoreErrorReturned ==
    [][StoreCallFails => ret'.err \notin {"nil", "panic"}]_vars

\* C22, for the operations that hand the store's error back: a failed
\* organization lookup of a creation and a failed update, deletion or
\* DropMeasurement return the error.
C22_LifecycleErrorReturned ==
    [][(StoreCallFails /\ ~Called("Get") /\ ~Called("Set")
            /\ ~(CalledCreate /\ call'.orgFound)) =>
          ret'.err \notin {"nil", "panic"}]_vars

(***************************************************************************)
(* The listeners of the error channel.                                     *)
(***************************************************************************)

\* the goroutines ranging over the error channels of client c
RECURSIVE SumOver(_, _)
SumOver(counts, chs) ==
    IF chs = {} THEN 0
    ELSE LET ch == CHOOSE x \in chs : TRUE
         IN  counts[ch] + SumOver(counts, chs \ {ch})

LiveOn(cl, c) == SumOver(cl.live, {ch \in DOMAIN cl.live : ch[1] = c})

\* C23: while the process runs, every asynchronous write error the store
\* puts on its error channel is eventually received and logged by a
\* listener, and every listener started by the facade terminates once the
\* connection (the client) is closed.
C23_DrainedAndTornDown ==
    /\ \A ch \in Channels :
           [](CountOf(client.pending, ch) > 0 =>
                 <>(CountOf(client.pending, ch) = 0 \/ ~Alive))
    /\ \A c \in 1..MaxClients :
           [](c \in client.closed => <>(LiveOn(client, c) = 0 \/ ~Alive))

\* C23, its first half: while the process runs, every error put on an error
\* channel is eventually received and logged.
C23_ErrorsDrained ==
    \A ch \in Channels :
        [](CountOf(client.pending, ch) > 0 =>
              <>(CountOf(client.pending, ch) = 0 \/ ~Alive))

\* C29: the number of live listeners does not grow with the number of
\* WritePoint calls: after any sequence of WritePoint and Set calls at most
\* one goroutine is reading an error channel, and none is left on the
\* channels of a client that was closed.
C29_OneListener ==
    /\ \A ch \in DOMAIN client.live : client.live[ch] <= 1
    /\ \A c \in client.closed : LiveOn(client, c) = 0

\* C29, as the code has it: every WritePoint and every Set adds a listener
\* to the error channel of its write API, and no step ends one.
C29_OneListenerPerWrite ==
    [][/\ (Called("WritePoint") \/ Called("Set")) =>
              LiveOn(client', client.iClient) = LiveOn(client, client.iClient) + 1
       /\ \A c \in 1..client.nclients : LiveOn(client', c) >= LiveOn(client, c)]_vars

(***************************************************************************)
(* The database the facade is bound to.                                    *)
(***************************************************************************)

\* the name the facade was constructed for: the one given to the
\* constructor, "default" for the empty name
BoundName == IF DbName = "" THEN "default" ELSE DbName

\* C24: the facade stays bound to the database named at construction: in
\* every reachable state, also after a successful DeleteTimeSeriesDB,
\* CreateTimeSeriesDB and CreateTimeSeriesDBWithRetentionPolicy act on the
\* bucket whose name was given to the constructor: that is the bucket they
\* look for, and they make no bucket of another name.
C24_BoundToConstructorName ==
    [][CalledCreate =>
          /\ db.Name = BoundName
          /\ \A n \in DOMAIN buckets' \ DOMAIN buckets : n = BoundName]_vars

\* C24, up to the first successful deletion: until DeleteTimeSeriesDB has
\* succeeded the cached name is the one given to the constructor.
C24_BoundUntilDeleted ==
    [][(db.Name = BoundName /\ ~(Called("DeleteTimeSeriesDB") /\ ret'.err = "nil")) =>
          db'.Name = BoundName]_vars

(***************************************************************************)
(* Array elements that are no Object.                                      *)
(***************************************************************************)

\* <<path of the element, element>> for every array element Flatten meets
\* that is no Object: the walk goes down through members that are not
\* ignored and through array elements
RECURSIVE NonObjectElementsMet(_, _, _)
NonObjectElementsMet(v, prefix, ignore) ==
    CASE v.kind = "Map" ->
             UNION {IF InList(ignore, k) THEN {}
                    ELSE NonObjectElementsMet(v.members[k], PathKey(prefix, k), ignore) :
                        k \in DOMAIN v.members}
      [] v.kind = "Slice" ->
             UNION {LET e == v.elems[i]
                        at == PathKey(prefix, Itoa(i - 1))
                    IN  (IF e.kind # "Map" THEN {<<at, e>>} ELSE {})
                        \cup NonObjectElementsMet(e, at, ignore) :
                        i \in 1..Len(v.elems)}
      [] OTHER -> {}

\* every such element that is no Array has its entry, holding the element
\* (the elements of a nested Array are met in their turn)
ElementsEmitted(met, flatMap) ==
    \A m \in met :
        m[2].kind # "Slice" => (m[1] \in DOMAIN flatMap /\ flatMap[m[1]] = m[2])

\* C25: for every array element at index i that is not an Object (a scalar,
\* a Null or a nested Array) Flatten returns normally, without error or
\* crash, and the element is emitted under createKey(prefix, i) with its
\* own value, Null included, or flattened under that key when it is a
\* nested Array.
C25_NonObjectElements ==
    (FlattenReturned
        /\ NonObjectElementsMet(call.nested, "", call.ignore) # {}
        /\ ret.err # "marshal") =>
        /\ ret.err = "nil"
        /\ ElementsEmitted(NonObjectElementsMet(call.nested, "", call.ignore), ret.flatMap)

\* C25, on the values whose met array elements are not Null: scalars are
\* emitted under their index keys and nested Arrays flattened.
C25_ScalarsAndArrays ==
    (FlattenReturned
        /\ NonObjectElementsMet(call.nested, "", call.ignore) # {}
        /\ \A m \in NonObjectElementsMet(call.nested, "", call.ignore) : m[2] # Null
        /\ ret.err # "marshal") =>
        /\ ret.err = "nil"
        /\ ElementsEmitted(NonObjectElementsMet(call.nested, "", call.ignore), ret.flatMap)

(***************************************************************************)
(* Flatten and the order in which the keys of an object are visited.       *)
(***************************************************************************)

\* C26: Flatten is a function of its arguments: for the same value, prefix
\* and ignore list every order in which the keys of each object are
\* visited yields the same FlatRow (no two leaves or ignored subtrees are
\* written under one output key with different values).
C26_OrderIndependent ==
    FlattenReturned =>
        \A o \in Flatten(call.nested, call.prefix, call.ignore) : o = ret

\* C26, for the objects no key of which holds a '.': when Flatten returns
\* without error, every visiting order that ends without error yields the
\* same FlatRow.
C26_DotFreeKeys ==
    (FlattenReturned /\ ret.err = "nil") =>
        \A o \in Flatten(call.nested, call.prefix, call.ignore) :
            o.err = "nil" => o.flatMap = ret.flatMap

(***************************************************************************)
(* A creation with a text that is no duration.                             *)
(***************************************************************************)

\* C27: CreateTimeSeriesDBWithRetentionPolicy(text) with a text holding an
\* unrecognized unit letter returns the invalid-unit error and changes
\* neither the store nor the cache, whether or not a bucket of the facade's
\* name exists (for a call whose organization lookup succeeds).
C27_InvalidTextRefused ==
    [][(CalledCreate /\ call'.orgFound /\ ~ValidDuration(call'.retentionPolicy)) =>
          /\ ret'.err = "InvalidUnit"
          /\ buckets' = buckets
          /\ db' = db]_vars

\* C27, when no bucket of the facade's name exists: there the text is
\* converted before the store is asked to create, and the error returned.
C27_WithoutBucket ==
    [][(CalledCreate /\ call'.orgFound /\ ~ValidDuration(call'.retentionPolicy)
            /\ ~BucketExists) =>
          /\ ret'.err = "InvalidUnit"
          /\ buckets' = buckets
          /\ db' = db]_vars

(***************************************************************************)
(* The cached retention policy and the retention of the bucket.            *)
(***************************************************************************)

\* the cached policy is a duration text whose seconds are the retention
\* seconds of the facade's bucket in the store
CacheAgrees(timeSeriesDB, bs) ==
    /\ timeSeriesDB.Name \in DOMAIN bs
    /\ InGrammar(timeSeriesDB.RetentionPolicy)
    /\ ComponentsSum(GrammarComponents(timeSeriesDB.RetentionPolicy)) =
           bs[timeSeriesDB.Name].EverySeconds

\* the step is a call that creates, updates or deletes the database
LifecycleCall ==
    \/ CalledCreate
    \/ Called("UpdateTimeSeriesDBRetentionPolicy")
    \/ Called("DeleteTimeSeriesDB")

\* C28: after every creation or UpdateTimeSeriesDBRetentionPolicy call
\* that returns without error, and until the next lifecycle call, the
\* seconds of the cached retention policy are the retention seconds of the
\* facade's bucket in the store.
C28_CacheAgreesWithStore ==
    [][/\ ((CalledCreate \/ Called("UpdateTimeSeriesDBRetentionPolicy"))
               /\ ret'.err = "nil") => CacheAgrees(db', buckets')
       /\ (CacheAgrees(db, buckets) /\ ~LifecycleCall) => CacheAgrees(db', buckets')]_vars

\* an update with the text 48h, which is not the canonical 2d, returned
\* nil: the cache holds 48h and the bucket 172800 seconds
C28_Witness ==
    /\ call.op = "UpdateTimeSeriesDBRetentionPolicy"
    /\ call.retentionPolicy = <<"4", "8", "h">>
    /\ ret.err = "nil"
    /\ db.RetentionPolicy = <<"4", "8", "h">>
    /\ db.Name \in DOMAIN buckets
    /\ buckets[db.Name].EverySeconds = 2 * 86400

(***************************************************************************)
(* Texts of digits and unit letters that are not of the grammar.           *)
(***************************************************************************)

\* the sum over the complete <digit run><unit> pairs of a text of digits
\* and unit letters, read from its end: a unit letter with no digit before
\* it counts 0 and a digit run with no unit letter after it is left out
RECURSIVE PairsSum(_)
PairsSum(t) ==
    IF t = <<>> THEN 0
    ELSE LET n == Len(t) IN
         IF t[n] \in DigitChars
         THEN PairsSum(SubSeq(t, 1, RunStart(t, n + 1) - 1))
         ELSE LET b == RunStart(t, n)
              IN  DecimalValue(SubSeq(t, b, n - 1), 0) * UnitSecondsOfSpec(t[n])
                      + PairsSum(SubSeq(t, 1, b - 1))

\* C30: rpStringToInt64 never fails on a text made only of digits and the
\* letters w, d, h, m, s, also outside the grammar: a unit letter with no
\* digits before it contributes 0 and a trailing digit run with no unit
\* letter is ignored, so the result is the sum over the complete
\* digit-run/unit pairs ("30" yields 0 with no error).
C30_OutsideGrammar ==
    (call.op = "ToSeconds" /\ Returned
        /\ \A i \in 1..Len(call.text) : call.text[i] \in DigitChars \cup UnitLetters) =>
        /\ ret.err = "nil"
        /\ ret.duration = PairsSum(call.text)
        /\ (call.text = <<"3", "0">> => ret.duration = 0)
        /\ (call.text = <<"d", "1", "h", "3">> => ret.duration = 3600)

\* the text d1h3, with a unit letter without digits and a trailing digit,
\* was converted
C30_Witness ==
    /\ call.op = "ToSeconds"
    /\ call.text = <<"d", "1", "h", "3">>
    /\ ~InGrammar(call.text)
    /\ Returned
    /\ ret.err = "nil"
    /\ ret.duration = 3600

====
